---- MODULE Spec2Model ----
(***************************************************************************)
(* Verification model of creastat/common-go: the provider registry         *)
(* (pkg/providers/registry/registry.go), the provider factory with its     *)
(* fallback wrapper (package factory), the Minimax streaming TTS client,  *)
(* the Cartesia and Deepgram streaming STT clients with Deepgram's         *)
(* Transcribe, the Supabase source cache and the plugin discovery pass.    *)
(*                                                                         *)
(* Every action sets ret to the outcome of the step it models, so that ret *)
(* always describes the operation that produced the current state.         *)
(***************************************************************************)
EXTENDS Integers, Sequences, FiniteSets, TLC

VARIABLES
    \* ---- providerRegistry (registry.go:42-59) ----
    providers,        \* name -> provider instance
    capabilityIndex,  \* capability -> sequence of names
    providerInfo,     \* name -> ProviderInfo owned by the registry
    healthStatus,     \* name -> HealthStatus
    lastHealthCheck,  \* name -> time
    hcPending,        \* HealthCheck: snapshot entries whose probe has not finished
    results,          \* HealthCheck: the results map of the running or last call
    \* ---- a caller holding the result of GetProviderInfo ----
    held,             \* the caller's *ProviderInfo copy
    firstRead,        \* deep value of the first read
    secondRead,       \* deep value of a later read of the same name
    \* ---- history of Register outcomes per name ----
    regOk,            \* name -> successful Register calls since the name was last removed
    \* ---- providerFactory / ProviderFactoryWithFallback ----
    cache,            \* "capability:name" -> cached service handle
    fpc,              \* per caller: position inside Create<Cap>Service
    fcall,            \* per caller: locals of the running call
    fallbackCfg,      \* Configuration.GetFallbackProvider: capability -> name
    \* ---- minimaxTTSClient ----
    closed,           \* c.closed
    doneCh,           \* "open" / "closed"
    audioCh,          \* buffered channel contents
    errCh,            \* buffered (capacity 1) channel contents
    connClosed,       \* c.conn.Close() has been called
    wire,             \* frames the client wrote to the transport
    rpc,              \* position of the readMessages goroutine
    rchunk,           \* chunk the reader is trying to deliver
    arrived,          \* audio chunks the reader has read so far
    finished,         \* the reader has read task_finished
    delivered,        \* chunks returned by Receive, in order
    ctxDone,          \* the context passed to Receive is cancelled
    closeReturned,    \* a caller's Close() has returned
    panicked,         \* the process panicked
    \* ---- STT streaming clients (cartesiaSTTClient, deepgramSTTClient) ----
    \* closed, doneCh, errCh, connClosed, wire, rpc, ... above hold the fields of
    \* the one client a specification runs
    resultCh,         \* buffered channel contents
    finals,           \* ids of the results read so far that have IsFinal set
    \* ---- DeepgramSTTService.Transcribe (deepgram/plugin.go:419-488) ----
    tpc,              \* position of the calling goroutine
    cpc,              \* position of the collecting goroutine
    fullText,         \* the collector's fullText, as a sequence of tokens
    trResultCh,       \* Transcribe's local resultCh (capacity 1)
    trErrCh,          \* Transcribe's local errCh (capacity 1)
    tret,             \* what Transcribe returns
    \* ---- supabase.Client (package supabase) ----
    byToken,          \* c.cache.byToken: public token -> cacheEntry
    byID,             \* c.cache.byID: source id -> cacheEntry
    now,              \* the wall clock read by time.Now()
    \* ---- pluginRegistry and one call of DiscoverAndRegister ----
    plugins,          \* pr.plugins, as the set of registered plugin names
    dpc,              \* position of the call: idle / loop / register / returned
    dconfigs,         \* names that have an entry in the configs argument
    dcopy,            \* pluginsCopy, as the set of its names
    dpending,         \* entries of pluginsCopy the loop has not visited
    dname,            \* the loop variable name
    dinit,            \* plugin -> number of Initialize calls made on it
    dprov,            \* plugin -> provider its Initialize returned (Nil: none)
    dclose,           \* plugin -> number of Close calls on that provider
    derrors,          \* the errors slice
    dret,             \* what the call returned
    \* ---- one call of ProviderDiscovery.ReloadProvider ----
    lpc,              \* position of the call: idle / init / register / returned
    lname,            \* the name argument
    lfresh,           \* the provider plugin.Initialize returned (Nil: none)
    lclose,           \* number of Close calls on that provider
    lret,             \* what the call returned
    \* ---- one call of OpenAICompatibleProvider.StreamChatCompletion ----
    spc,              \* position of the producer goroutine
    contentChan,      \* buffered channel contents (deltas, numbered)
    errChan,          \* buffered (capacity 1) channel contents
    chansClosed,      \* the deferred close of both channels has run
    sent,             \* number of values the producer has sent on errChan
    srecv,            \* number of deltas stream.Recv() has returned
    sctx,             \* ctx is cancelled
    readerStopped,    \* the caller no longer reads contentChan
    \* ---- Yandex TTS: one NewTTSClient or Synthesize call ----
    vpc,              \* idle / client / emitted
    reqVolume,        \* config.Volume as the caller passed it, in tenths
    cfgVolume,        \* config.Volume after the defaults, in tenths
    cfgNorm,          \* config.Options["loudness_normalization"]
    wireVolume,       \* the volume put into the request, in tenths
    \* ---- registry: r.mu and the goroutines inside registry calls ----
    muWriter,         \* the goroutine holding r.mu.Lock(), 0 for none
    muReaders,        \* the goroutines holding r.mu.RLock()
    gpc,              \* goroutine -> its position inside a registry call
    garg,             \* goroutine -> the arguments of that call
    inMethod,         \* goroutine -> the provider method it is executing
    hcProbing,        \* probe goroutines of HealthCheck inside p.HealthCheck
    \* ---- Yandex TTS streaming client (yandexTTSClient) ----
    ymu,              \* the goroutine holding c.mu, 0 for none
    yclosed,          \* c.closed
    ystream,          \* c.stream: "nil" or "open"
    ypc,              \* goroutine -> its position inside Send or Close
    ystarted,         \* receiveAudio goroutines started so far
    ycons,            \* position of receiveAudio: none / recv / send / exited
    yaudio,           \* chunks buffered in c.audioCh
    yerr,             \* errors buffered in c.errCh
    yaudioClosed,     \* c.audioCh is closed
    ydoneClosed,      \* c.doneCh is closed
    ypanic,           \* a goroutine panicked: "" or the reason
    \* ---- outcome of the last step ----
    ret

regVars  == <<providers, capabilityIndex, providerInfo, healthStatus,
              lastHealthCheck, hcPending, results, regOk>>
infoVars == <<held, firstRead, secondRead>>
facVars  == <<cache, fpc, fcall, fallbackCfg>>
mmVars   == <<closed, doneCh, audioCh, errCh, connClosed, wire, rpc, rchunk,
              arrived, finished, delivered, ctxDone, closeReturned, panicked>>
sttVars  == <<resultCh, finals>>
trVars   == <<tpc, cpc, fullText, trResultCh, trErrCh, tret>>
supaVars == <<byToken, byID, now>>
discVars == <<plugins, dpc, dconfigs, dcopy, dpending, dname, dinit, dprov, dclose,
              derrors, dret>>
reloadVars == <<lpc, lname, lfresh, lclose, lret>>
streamVars == <<spc, contentChan, errChan, chansClosed, sent, srecv, sctx,
                readerStopped>>
volVars  == <<vpc, reqVolume, cfgVolume, cfgNorm, wireVolume>>
lockVars == <<muWriter, muReaders, gpc, garg, inMethod, hcProbing>>
ytVars   == <<ymu, yclosed, ystream, ypc, ystarted, ycons, yaudio, yerr,
              yaudioClosed, ydoneClosed, ypanic>>
extVars  == <<sttVars, trVars, supaVars, discVars, reloadVars, streamVars, volVars,
              lockVars, ytVars>>
vars     == <<regVars, infoVars, facVars, mmVars, extVars, ret>>

\* ---------------------------------------------------------------------------
\* Data
\* ---------------------------------------------------------------------------
Capability == {"chat", "embedding", "stt", "tts"}

HealthStatusHealthy   == "healthy"
HealthStatusUnhealthy == "unhealthy"
HealthStatusUnknown   == "unknown"

\* Provider instances a caller can hand to Register.  caps is what
\* Capabilities() returns, impl the capability interfaces the object satisfies.
Pool ==
    << [name |-> "a", caps |-> <<"stt">>,        impl |-> {"stt"}],
       [name |-> "a", caps |-> <<"stt", "tts">>, impl |-> {"stt", "tts"}],
       [name |-> "b", caps |-> <<"stt", "stt">>, impl |-> {"stt"}],
       [name |-> "b", caps |-> <<"tts", "stt">>, impl |-> {"tts"}],
       [name |-> "",  caps |-> <<"stt">>,        impl |-> {"stt"}],
       [name |-> "c", caps |-> <<>>,             impl |-> {}],
       [name |-> "c", caps |-> <<"vision">>,     impl |-> {}],
       [name |-> "a", caps |-> <<"stt", "vision">>, impl |-> {"stt"}],
       [name |-> "c", caps |-> <<"stt">>,        impl |-> {"stt"}] >>

Nil   == 0
Provs == 1..8
Names == {"a", "b"}

ProvName(p) == Pool[p].name
ProvCaps(p) == Pool[p].caps
ProvImpl(p) == Pool[p].impl

EmptyMap == [x \in {} |-> 0]
ZeroTime == 0                \* time.Time{}
TimeNow  == ZeroTime + 1     \* time.Now(): some instant after the zero time

Range(s) == {s[i] : i \in DOMAIN s}

\* map[k] = v / delete(map, k) on a Go map
MapPut(m, k, v) == [x \in (DOMAIN m) \cup {k} |-> IF x = k THEN v ELSE m[x]]
MapDel(m, k)    == [x \in (DOMAIN m) \ {k} |-> m[x]]

\* remove the element at index i of a sequence: append(names[:i], names[i+1:]...)
RemoveAt(s, i) == [j \in 1..(Len(s) - 1) |-> IF j < i THEN s[j] ELSE s[j + 1]]

Count(s, x) == Cardinality({i \in DOMAIN s : s[i] = x})

\* ---------------------------------------------------------------------------
\* Step outcomes
\* ---------------------------------------------------------------------------
\* step: the operation (or part of one) the last step ran; name, cap: its
\* arguments; p: the provider it returned or acted on; err: its error ("nil" for
\* none) and errName the provider name the error is about; for the factory,
\* cached: served from the cache, stage: "primary" / "fallback" attempt of the
\* wrapper, at: "check" / "get" / "set" part of Create<Cap>Service, t: caller.
NoRet == [step |-> "init", name |-> "", cap |-> "", p |-> Nil, err |-> "nil",
          errName |-> "", cached |-> FALSE, stage |-> "", at |-> "", t |-> 0,
          chunk |-> 0, wrote |-> FALSE]

Ret(step, name, cap, p, err) ==
    [step |-> step, name |-> name, cap |-> cap, p |-> p, err |-> err,
     errName |-> IF err = "nil" THEN "" ELSE name, cached |-> FALSE,
     stage |-> "", at |-> "", t |-> 0, chunk |-> 0, wrote |-> FALSE]

\* outcome of a step of a streaming client: chunk is the audio chunk Receive
\* returned (0: none), wrote whether the step wrote a message to the connection
StreamRet(step, err, chunk, wrote) ==
    [NoRet EXCEPT !.step = step, !.err = err, !.chunk = chunk, !.wrote = wrote]

\* ---------------------------------------------------------------------------
\* Registry: helpers
\* ---------------------------------------------------------------------------
validateCapabilities_acceptAll(capabilities) == TRUE

validateCapabilities(capabilities) ==
    \A i \in DOMAIN capabilities : capabilities[i] \in Capability

hasCapability(p, capability) ==
    \E i \in DOMAIN ProvCaps(p) : ProvCaps(p)[i] = capability

convertCapabilities(caps) == [i \in DOMAIN caps |-> caps[i]]

NewProviderInfo(name, providerType, capabilities) ==
    [Name |-> name, Type |-> providerType, Capabilities |-> capabilities,
     Models |-> {}, Available |-> FALSE, HealthStatus |-> HealthStatusUnknown,
     Metadata |-> {}, LastChecked |-> TimeNow]

UpdateHealthStatus_stale(info, status) ==
    [info EXCEPT !.LastChecked = TimeNow]

\* ProviderInfo.UpdateHealthStatus
UpdateHealthStatus(info, status) ==
    [info EXCEPT !.HealthStatus = status, !.LastChecked = TimeNow]

\* one pass of removeFromCapabilityIndex over index idx
removeFromCapabilityIndex(idx, capability, name) ==
    IF capability \notin DOMAIN idx THEN idx
    ELSE LET names == idx[capability]
             hits  == {i \in DOMAIN names : names[i] = name}
             first == CHOOSE i \in hits : \A j \in hits : i <= j
             names2 == IF hits = {} THEN names ELSE RemoveAt(names, first)
         IN  IF Len(names2) = 0 THEN MapDel(idx, capability)
             ELSE MapPut(idx, capability, names2)

\* the loop of Unregister over provider.Capabilities()
RECURSIVE removeAll(_, _, _, _)
removeAll(idx, capabilities, i, name) ==
    IF i > Len(capabilities) THEN idx
    ELSE removeAll(removeFromCapabilityIndex(idx, capabilities[i], name),
                   capabilities, i + 1, name)

RECURSIVE appendAll_front(_, _, _, _)
appendAll_front(idx, capabilities, i, name) ==
    IF i > Len(capabilities) THEN idx
    ELSE LET c   == capabilities[i]
             old == IF c \in DOMAIN idx THEN idx[c] ELSE <<>>
         IN  appendAll_front(MapPut(idx, c, <<name>> \o old), capabilities, i + 1, name)

\* the loop of Register over capabilities
RECURSIVE appendAll(_, _, _, _)
appendAll(idx, capabilities, i, name) ==
    IF i > Len(capabilities) THEN idx
    ELSE LET c   == capabilities[i]
             old == IF c \in DOMAIN idx THEN idx[c] ELSE <<>>
         IN  appendAll(MapPut(idx, c, Append(old, name)), capabilities, i + 1, name)

\* a Register that forgets the duplicate check
AlreadyRegistered_never(name) == FALSE

\* Register, lines 96-99
AlreadyRegistered(name) == name \in DOMAIN providers

\* List(capability): handles in index order
List(capability) ==
    IF capability \notin DOMAIN capabilityIndex THEN <<>>
    ELSE LET names == capabilityIndex[capability]
             keep(n) == n \in DOMAIN providers
         IN  [i \in DOMAIN SelectSeq(names, keep) |->
                 providers[SelectSeq(names, keep)[i]]]

GetAvailableProviders_unfiltered(capability) ==
    IF capability \notin DOMAIN capabilityIndex THEN <<>>
    ELSE LET names == capabilityIndex[capability]
             keep(n) == n \in DOMAIN providers
         IN  [i \in DOMAIN SelectSeq(names, keep) |->
                 providers[SelectSeq(names, keep)[i]]]

GetAvailableProviders(capability) ==
    IF capability \notin DOMAIN capabilityIndex THEN <<>>
    ELSE LET names == capabilityIndex[capability]
             keep(n) == /\ n \in DOMAIN providers
                        /\ n \in DOMAIN healthStatus
                        /\ healthStatus[n] # HealthStatusUnhealthy
         IN  [i \in DOMAIN SelectSeq(names, keep) |->
                 providers[SelectSeq(names, keep)[i]]]

Get_ignoresHealth(name, capability) ==
    IF name \notin DOMAIN providers THEN <<Nil, "not found">>
    ELSE IF ~hasCapability(providers[name], capability)
         THEN <<Nil, "does not support capability">>
    ELSE <<providers[name], "nil">>

\* Get(name, capability): <<handle, error>>
Get(name, capability) ==
    IF name \notin DOMAIN providers THEN <<Nil, "not found">>
    ELSE IF ~hasCapability(providers[name], capability)
         THEN <<Nil, "does not support capability">>
    ELSE IF name \in DOMAIN healthStatus /\ healthStatus[name] = HealthStatusUnhealthy
         THEN <<Nil, "currently unhealthy">>
    ELSE <<providers[name], "nil">>

\* the value a caller sees through a *ProviderInfo whose slice and maps point
\* at the objects of the registry entry `aliases`
Deep(copy) ==
    [Name |-> copy.Name, Type |-> copy.Type, Available |-> copy.Available,
     HealthStatus |-> copy.HealthStatus, LastChecked |-> copy.LastChecked,
     Capabilities |-> providerInfo[copy.aliases].Capabilities,
     Models |-> providerInfo[copy.aliases].Models,
     Metadata |-> providerInfo[copy.aliases].Metadata]

NoInfo == [aliases |-> ""]
NoRead == [Name |-> ""]

\* ---------------------------------------------------------------------------
\* Registry: operations
\* ---------------------------------------------------------------------------
ResetReader == held' = NoInfo /\ firstRead' = NoRead /\ secondRead' = NoRead

\* Register, lines 73-120.  The validation (73-91) reads only the provider;
\* the rest runs under r.mu, so the call takes effect in one step.
RegisterBody(p) ==
       IF p = Nil
       THEN /\ ret' = Ret("Register", "", "", p, "provider cannot be nil")
            /\ UNCHANGED <<regVars, infoVars>>
       ELSE IF ProvName(p) = ""
       THEN /\ ret' = Ret("Register", "", "", p, "provider name cannot be empty")
            /\ UNCHANGED <<regVars, infoVars>>
       ELSE IF Len(ProvCaps(p)) = 0
       THEN /\ ret' = Ret("Register", ProvName(p), "", p,
                          "must support at least one capability")
            /\ UNCHANGED <<regVars, infoVars>>
       ELSE IF ~validateCapabilities(ProvCaps(p))
       THEN /\ ret' = Ret("Register", ProvName(p), "", p, "invalid capabilities")
            /\ UNCHANGED <<regVars, infoVars>>
       ELSE IF AlreadyRegistered(ProvName(p))
       THEN /\ ret' = Ret("Register", ProvName(p), "", p, "already registered")
            /\ UNCHANGED <<regVars, infoVars>>
       ELSE LET name == ProvName(p)
                capabilities == ProvCaps(p)
            IN  /\ providers' = MapPut(providers, name, p)
                /\ capabilityIndex' = appendAll(capabilityIndex, capabilities, 1, name)
                /\ providerInfo' = MapPut(providerInfo, name,
                       [NewProviderInfo(name, name, convertCapabilities(capabilities))
                           EXCEPT !.Available = TRUE,
                                  !.HealthStatus = HealthStatusUnknown])
                /\ healthStatus' = MapPut(healthStatus, name, HealthStatusUnknown)
                /\ lastHealthCheck' = MapPut(lastHealthCheck, name, ZeroTime)
                /\ regOk' = [regOk EXCEPT ![name] = @ + 1]
                /\ ret' = Ret("Register", name, "", p, "nil")
                /\ ResetReader
                /\ UNCHANGED <<hcPending, results>>

Register(p) ==
    /\ RegisterBody(p)
    /\ UNCHANGED <<facVars, mmVars, extVars>>

\* Unregister, lines 168-195; closeErr is what provider.Close() returns
UnregisterBody(name, closeErr) ==
    /\ IF name \notin DOMAIN providers
       THEN /\ ret' = Ret("Unregister", name, "", Nil, "not found")
            /\ UNCHANGED <<providers, capabilityIndex, providerInfo, healthStatus,
                           lastHealthCheck, regOk, infoVars>>
       ELSE IF closeErr
       THEN /\ ret' = Ret("Unregister", name, "", providers[name],
                          "failed to close provider")
            /\ UNCHANGED <<providers, capabilityIndex, providerInfo, healthStatus,
                           lastHealthCheck, regOk, infoVars>>
       ELSE /\ capabilityIndex' =
                   removeAll(capabilityIndex, ProvCaps(providers[name]), 1, name)
            /\ providers' = MapDel(providers, name)
            /\ providerInfo' = MapDel(providerInfo, name)
            /\ healthStatus' = MapDel(healthStatus, name)
            /\ lastHealthCheck' = MapDel(lastHealthCheck, name)
            /\ regOk' = [regOk EXCEPT ![name] = 0]
            /\ ret' = Ret("Unregister", name, "", providers[name], "nil")
            /\ ResetReader
    /\ UNCHANGED <<hcPending, results>>

Unregister(name, closeErr) ==
    /\ UnregisterBody(name, closeErr)
    /\ UNCHANGED <<facVars, mmVars, extVars>>

\* GetProviderInfo, lines 198-210: infoCopy := *info copies the struct, so the
\* slice and the two maps of the copy are the registry's own objects
GetProviderInfo(name) ==
    /\ IF name \notin DOMAIN providerInfo
       THEN /\ ret' = Ret("GetProviderInfo", name, "", Nil, "not found")
            /\ UNCHANGED infoVars
       ELSE LET info == providerInfo[name]
                infoCopy == [Name |-> info.Name, Type |-> info.Type,
                             Available |-> info.Available,
                             HealthStatus |-> info.HealthStatus,
                             LastChecked |-> info.LastChecked,
                             aliases |-> name]
            IN  /\ ret' = Ret("GetProviderInfo", name, "", Nil, "nil")
                /\ IF held # NoInfo /\ held.aliases = name
                   THEN /\ secondRead' = Deep(infoCopy)
                        /\ UNCHANGED <<held, firstRead>>
                   ELSE /\ held' = infoCopy
                        /\ firstRead' = Deep(infoCopy)
                        /\ secondRead' = NoRead
    /\ UNCHANGED <<regVars, facVars, mmVars, extVars>>

\* the caller writes through the *ProviderInfo it was given
MutateInfo(kind) ==
    /\ held # NoInfo
    /\ secondRead' = NoRead
    /\ ret' = Ret("MutateInfo", held.aliases, kind, Nil, "nil")
    /\ CASE kind = "Available" ->
              /\ held' = [held EXCEPT !.Available = ~@]
              /\ UNCHANGED providerInfo
         [] kind = "HealthStatus" ->
              /\ held' = [held EXCEPT !.HealthStatus = "degraded"]
              /\ UNCHANGED providerInfo
         [] kind = "Capabilities[0]" ->
              /\ providerInfo' =
                    [providerInfo EXCEPT ![held.aliases].Capabilities[1] = "chat"]
              /\ UNCHANGED held
         [] kind = "Models[k]" ->
              /\ providerInfo' =
                    [providerInfo EXCEPT ![held.aliases].Models = @ \cup {"stt"}]
              /\ UNCHANGED held
         [] kind = "Metadata[k]" ->
              /\ providerInfo' =
                    [providerInfo EXCEPT ![held.aliases].Metadata = @ \cup {"region"}]
              /\ UNCHANGED held
    /\ UNCHANGED firstRead
    /\ UNCHANGED <<providers, capabilityIndex, healthStatus, lastHealthCheck,
                   hcPending, results, regOk>>
    /\ UNCHANGED <<facVars, mmVars, extVars>>

MutationKinds ==
    {"Available", "HealthStatus", "Capabilities[0]", "Models[k]", "Metadata[k]"}

\* HealthCheck, lines 227-232: snapshot of r.providers under the read lock
HealthCheckSnapshotBody ==
    /\ hcPending = {}
    /\ hcPending' = {<<n, providers[n]>> : n \in DOMAIN providers}
    /\ results' = EmptyMap
    /\ ret' = Ret(IF DOMAIN providers = {} THEN "HealthCheck" ELSE "HealthCheckSnapshot",
                  "", "", Nil, "nil")
    /\ UNCHANGED <<providers, capabilityIndex, providerInfo, healthStatus,
                   lastHealthCheck, regOk>>
    /\ UNCHANGED infoVars

HealthCheckSnapshot ==
    /\ HealthCheckSnapshotBody
    /\ UNCHANGED <<facVars, mmVars, extVars>>

\* HealthCheck, lines 240-266: one probe goroutine; probeErr is what
\* p.HealthCheck(ctx) returned
HealthCheckProbeBody(n, p, probeErr) ==
    /\ <<n, p>> \in hcPending
    /\ hcPending' = hcPending \ {<<n, p>>}
    /\ results' = MapPut(results, n, IF probeErr THEN "probe failed" ELSE "nil")
    /\ lastHealthCheck' = MapPut(lastHealthCheck, n, TimeNow)
    /\ LET status == IF probeErr THEN HealthStatusUnhealthy ELSE HealthStatusHealthy
       IN  /\ healthStatus' = MapPut(healthStatus, n, status)
           /\ providerInfo' =
                IF n \in DOMAIN providerInfo
                THEN [providerInfo EXCEPT ![n] =
                        [UpdateHealthStatus(@, status) EXCEPT !.Available = ~probeErr]]
                ELSE providerInfo
    /\ ret' = Ret(IF hcPending' = {} THEN "HealthCheck" ELSE "HealthCheckProbe",
                  n, "", p, IF probeErr THEN "probe failed" ELSE "nil")
    /\ ResetReader
    /\ UNCHANGED <<providers, capabilityIndex, regOk>>

HealthCheckProbe(n, p, probeErr) ==
    /\ HealthCheckProbeBody(n, p, probeErr)
    /\ UNCHANGED <<facVars, mmVars, extVars>>

\* a caller of Get, lines 123-145: the whole call runs under the read lock and
\* writes no field of the registry
GetCall(name, capability) ==
    /\ ret' = Ret("Get", name, capability, Get(name, capability)[1],
                  Get(name, capability)[2])
    /\ UNCHANGED <<regVars, infoVars, facVars, mmVars, extVars>>

Goroutines == {1, 2}   \* goroutines calling the registry
NoArg == [name |-> "", cap |-> "", p |-> Nil]

\* ---------------------------------------------------------------------------
\* Initial states
\* ---------------------------------------------------------------------------
Callers == {1, 2}     \* goroutines calling the factory

NoCall == [cap |-> "", name |-> "", requested |-> "", p |-> Nil,
           wrapped |-> FALSE, stage |-> ""]

\* NewProviderRegistry, lines 62-70
InitRegistry ==
    /\ providers = EmptyMap
    /\ capabilityIndex = EmptyMap
    /\ providerInfo = EmptyMap
    /\ healthStatus = EmptyMap
    /\ lastHealthCheck = EmptyMap
    /\ hcPending = {}
    /\ results = EmptyMap
    /\ regOk = [n \in Names |-> 0]
    /\ held = NoInfo
    /\ firstRead = NoRead
    /\ secondRead = NoRead

\* NewProviderFactory, lines 55-62
InitFactory ==
    /\ cache = EmptyMap
    /\ fpc = [t \in Callers |-> "idle"]
    /\ fcall = [t \in Callers |-> NoCall]

\* NewTTSClient, minimax/plugin.go lines 357-382
InitMinimax ==
    /\ closed = FALSE
    /\ doneCh = "open"
    /\ audioCh = <<>>
    /\ errCh = <<>>
    /\ connClosed = FALSE
    /\ wire = <<>>
    /\ rpc = "loop"
    /\ rchunk = 0
    /\ arrived = 0
    /\ finished = FALSE
    /\ delivered = <<>>
    /\ ctxDone = FALSE
    /\ closeReturned = FALSE
    /\ panicked = FALSE

\* NewSTTClient, cartesia/plugin.go lines 294-301
InitSTT == resultCh = <<>> /\ finals = {}

\* Transcribe, deepgram/plugin.go lines 421-433: the client is created, the
\* local channels are made, the collector starts with an empty fullText
NoTret == [text |-> <<>>, err |-> ""]

InitTranscribe ==
    /\ tpc = "send"
    /\ cpc = "run"
    /\ fullText = <<>>
    /\ trResultCh = <<>>
    /\ trErrCh = <<>>
    /\ tret = NoTret

\* NewClient, part_008 lines 70-82
InitSupabase ==
    /\ byToken = EmptyMap
    /\ byID = EmptyMap
    /\ now = ZeroTime

\* NewPluginRegistry, lines 56-60, and no DiscoverAndRegister call yet
PluginNames == {"pa", "pb", "pc"}

NoDret == [err |-> "", count |-> 0]

InitDiscovery ==
    /\ plugins = {}
    /\ dpc = "idle"
    /\ dconfigs = {}
    /\ dcopy = {}
    /\ dpending = {}
    /\ dname = ""
    /\ dinit = [n \in PluginNames |-> 0]
    /\ dprov = [n \in PluginNames |-> Nil]
    /\ dclose = [n \in PluginNames |-> 0]
    /\ derrors = <<>>
    /\ dret = NoDret

\* no ReloadProvider call yet
InitReload ==
    /\ lpc = "idle"
    /\ lname = ""
    /\ lfresh = Nil
    /\ lclose = 0
    /\ lret = ""

\* StreamChatCompletion, lines 391-394: the channels are made and the producer
\* goroutine is started
InitStream ==
    /\ spc = "start"
    /\ contentChan = <<>>
    /\ errChan = <<>>
    /\ chansClosed = FALSE
    /\ sent = 0
    /\ srecv = 0
    /\ sctx = FALSE
    /\ readerStopped = FALSE

\* no Yandex TTS call yet
InitVolume ==
    /\ vpc = "idle"
    /\ reqVolume = 0
    /\ cfgVolume = 0
    /\ cfgNorm = ""
    /\ wireVolume = 0

\* r.mu is free and no goroutine is inside a registry call
InitLock ==
    /\ muWriter = 0
    /\ muReaders = {}
    /\ gpc = [g \in Goroutines |-> "idle"]
    /\ garg = [g \in Goroutines |-> NoArg]
    /\ inMethod = [g \in Goroutines |-> "none"]
    /\ hcProbing = {}

\* NewTTSClient, yandex/tts.go lines 75-85: no stream, no receiver goroutine
InitYandexTTS ==
    /\ ymu = 0
    /\ yclosed = FALSE
    /\ ystream = "nil"
    /\ ypc = [g \in Goroutines |-> "idle"]
    /\ ystarted = 0
    /\ ycons = "none"
    /\ yaudio = 0
    /\ yerr = 0
    /\ yaudioClosed = FALSE
    /\ ydoneClosed = FALSE
    /\ ypanic = ""

InitExt ==
    /\ InitSTT /\ InitTranscribe /\ InitSupabase /\ InitDiscovery /\ InitReload
    /\ InitStream
    /\ InitVolume
    /\ InitLock
    /\ InitYandexTTS

Init ==
    /\ InitRegistry
    /\ InitFactory
    /\ fallbackCfg = [c \in Capability |-> ""]
    /\ InitMinimax
    /\ InitExt
    /\ ret = NoRet

\* ---------------------------------------------------------------------------
\* The registry under arbitrary callers
\* ---------------------------------------------------------------------------
\* ---------------------------------------------------------------------------
\* Factory (package factory)
\* ---------------------------------------------------------------------------
\* cacheKey := fmt.Sprintf("stt:%s", providerName)
CacheKey(capability, providerName) == <<capability, providerName>>

\* getCached, lines 207-212: nil when the key is absent
getCached(key) == IF key \in DOMAIN cache THEN cache[key] ELSE Nil

\* a ClearCacheForProvider that forgets the stt key
keysToDelete_noSTT(providerName) ==
    {CacheKey(c, providerName) : c \in Capability \ {"stt"}}

\* ClearCacheForProvider, lines 194-199
keysToDelete(providerName) == {CacheKey(c, providerName) : c \in Capability}

\* Configuration.GetFallbackProvider
GetFallbackProvider(capability) == fallbackCfg[capability]

FactoryReturn_chain(t, c, handle, err, cached, at) ==
    LET fallback == GetFallbackProvider(c.cap)
    IN  IF /\ c.wrapped /\ err # "nil"
           /\ fallback # "" /\ fallback # c.requested
        THEN /\ fpc' = [fpc EXCEPT ![t] = "check"]
             /\ fcall' = [fcall EXCEPT ![t] =
                             [c EXCEPT !.name = fallback, !.stage = "fallback",
                                       !.p = Nil]]
             /\ ret' = [Ret("Create:retry", c.requested, c.cap, Nil, err) EXCEPT
                           !.errName = c.name, !.stage = c.stage, !.at = at, !.t = t]
        ELSE /\ fpc' = [fpc EXCEPT ![t] = "idle"]
             /\ fcall' = [fcall EXCEPT ![t] = NoCall]
             /\ ret' = [Ret(IF c.wrapped THEN "WrapperCreate" ELSE "Create",
                            c.requested, c.cap, handle, err) EXCEPT
                           !.errName = IF err = "nil" THEN "" ELSE c.name,
                           !.cached = cached, !.stage = c.stage, !.at = at, !.t = t]

\* Caller t, running the call described by c, leaves
\* providerFactory.Create<Cap>Service with (handle, err).  For a call made
\* through ProviderFactoryWithFallback (lines 283-296) the wrapper then either
\* returns or starts the fallback attempt.
FactoryReturn(t, c, handle, err, cached, at) ==
    LET fallback == GetFallbackProvider(c.cap)
    IN  IF /\ c.wrapped /\ c.stage = "primary" /\ err # "nil"
           /\ fallback # "" /\ fallback # c.requested
        THEN /\ fpc' = [fpc EXCEPT ![t] = "check"]
             /\ fcall' = [fcall EXCEPT ![t] =
                             [c EXCEPT !.name = fallback, !.stage = "fallback",
                                       !.p = Nil]]
             /\ ret' = [Ret("Create:retry", c.requested, c.cap, Nil, err) EXCEPT
                           !.errName = c.name, !.stage = c.stage, !.at = at, !.t = t]
        ELSE /\ fpc' = [fpc EXCEPT ![t] = "idle"]
             /\ fcall' = [fcall EXCEPT ![t] = NoCall]
             /\ ret' = [Ret(IF c.wrapped THEN "WrapperCreate" ELSE "Create",
                            c.requested, c.cap, handle, err) EXCEPT
                           !.errName = IF err = "nil" THEN "" ELSE c.name,
                           !.cached = cached, !.stage = c.stage, !.at = at, !.t = t]

\* Create<Cap>Service, lines 124-131: cache lookup of the call described by c
CheckCache(t, c) ==
    LET service == getCached(CacheKey(c.cap, c.name))
    IN  IF service # Nil /\ c.cap \in ProvImpl(service)
        THEN FactoryReturn(t, c, service, "nil", TRUE, "check")
        ELSE /\ fpc' = [fpc EXCEPT ![t] = "get"]
             /\ fcall' = [fcall EXCEPT ![t] = c]
             /\ ret' = [Ret("Create:miss", c.requested, c.cap, Nil, "nil") EXCEPT
                           !.stage = c.stage, !.at = "check", !.t = t]

\* providerFactory.Create<Cap>Service called directly: entry and cache lookup
CreateService(t, capability, providerName) ==
    /\ fpc[t] = "idle"
    /\ CheckCache(t, [cap |-> capability, name |-> providerName,
                      requested |-> providerName, p |-> Nil, wrapped |-> FALSE,
                      stage |-> ""])
    /\ UNCHANGED <<cache, fallbackCfg, regVars, infoVars, mmVars, extVars>>

\* ProviderFactoryWithFallback.Create<Cap>Service, line 284: the primary
\* attempt enters the factory
WrapperCreateService(t, capability, providerName) ==
    /\ fpc[t] = "idle"
    /\ CheckCache(t, [cap |-> capability, name |-> providerName,
                      requested |-> providerName, p |-> Nil, wrapped |-> TRUE,
                      stage |-> "primary"])
    /\ UNCHANGED <<cache, fallbackCfg, regVars, infoVars, mmVars, extVars>>

\* ProviderFactoryWithFallback, line 292: the fallback attempt enters the factory
FallbackCheckCache(t) ==
    /\ fpc[t] = "check"
    /\ CheckCache(t, fcall[t])
    /\ UNCHANGED <<cache, fallbackCfg, regVars, infoVars, mmVars, extVars>>

\* Create<Cap>Service, lines 133-143: registry lookup and interface check
CreateGet(t) ==
    /\ fpc[t] = "get"
    /\ LET c == fcall[t]
           got == Get(c.name, c.cap)
       IN  IF got[2] # "nil"
           THEN FactoryReturn(t, c, Nil, got[2], FALSE, "get")
           ELSE IF c.cap \notin ProvImpl(got[1])
           THEN FactoryReturn(t, c, Nil, "does not implement interface", FALSE, "get")
           ELSE /\ fpc' = [fpc EXCEPT ![t] = "set"]
                /\ fcall' = [fcall EXCEPT ![t].p = got[1]]
                /\ ret' = [Ret("Create:got", c.requested, c.cap, got[1], "nil") EXCEPT
                              !.stage = c.stage, !.at = "get", !.t = t]
    /\ UNCHANGED <<cache, fallbackCfg, regVars, infoVars, mmVars, extVars>>

\* Create<Cap>Service, lines 145-148: setCached and return
CreateSet(t) ==
    /\ fpc[t] = "set"
    /\ cache' = MapPut(cache, CacheKey(fcall[t].cap, fcall[t].name), fcall[t].p)
    /\ FactoryReturn(t, fcall[t], fcall[t].p, "nil", FALSE, "set")
    /\ UNCHANGED <<fallbackCfg, regVars, infoVars, mmVars, extVars>>

\* ClearCache, lines 181-186
ClearCache ==
    /\ cache' = EmptyMap
    /\ ret' = Ret("ClearCache", "", "", Nil, "nil")
    /\ UNCHANGED <<fpc, fcall, fallbackCfg, regVars, infoVars, mmVars, extVars>>

ClearCacheForProvider_all(providerName) ==
    /\ cache' = EmptyMap
    /\ ret' = Ret("ClearCacheForProvider", providerName, "", Nil, "nil")
    /\ UNCHANGED <<fpc, fcall, fallbackCfg, regVars, infoVars, mmVars, extVars>>

\* ClearCacheForProvider, lines 189-204
ClearCacheForProvider(providerName) ==
    /\ cache' = [k \in (DOMAIN cache) \ keysToDelete(providerName) |-> cache[k]]
    /\ ret' = Ret("ClearCacheForProvider", providerName, "", Nil, "nil")
    /\ UNCHANGED <<fpc, fcall, fallbackCfg, regVars, infoVars, mmVars, extVars>>

Next ==
    \/ \E p \in Provs \cup {Nil} : Register(p)
    \/ \E n \in Names, closeErr \in BOOLEAN : Unregister(n, closeErr)
    \/ HealthCheckSnapshot
    \/ \E n \in Names, p \in Provs, probeErr \in BOOLEAN : HealthCheckProbe(n, p, probeErr)

Spec == Init /\ [][Next]_vars

\* The registry with HealthCheck running alone: Register and Unregister are
\* called only while no HealthCheck is between its snapshot (227-232) and
\* wg.Wait() (269)
NextHealth ==
    \/ hcPending = {} /\ \E p \in Provs \cup {Nil} : Register(p)
    \/ hcPending = {} /\ \E n \in Names, closeErr \in BOOLEAN : Unregister(n, closeErr)
    \/ HealthCheckSnapshot
    \/ \E n \in Names, p \in Provs, probeErr \in BOOLEAN : HealthCheckProbe(n, p, probeErr)

SpecHealth == Init /\ [][NextHealth]_vars

\* The registry with three provider names, for the order of List
ListProvs == {2, 3, 4, 9}
ListNames == {"a", "b", "c"}

NextList ==
    \/ \E p \in ListProvs : Register(p)
    \/ \E n \in ListNames, closeErr \in BOOLEAN : Unregister(n, closeErr)

SpecList == Init /\ [][NextList]_vars

\* The registry with callers of Get next to Register, Unregister and HealthCheck
GetNames == Names \cup {"c"}
GetCaps  == {"stt", "tts", "chat"}

NextGet ==
    \/ Next
    \/ \E n \in GetNames, c \in GetCaps : GetCall(n, c)

SpecGet == Init /\ [][NextGet]_vars

\* ---------------------------------------------------------------------------
\* A caller that reads, mutates and re-reads a ProviderInfo
\* ---------------------------------------------------------------------------
InfoProvs == {1, 2}

NextInfo ==
    \/ \E p \in InfoProvs : Register(p)
    \/ \E n \in Names, closeErr \in BOOLEAN : Unregister(n, closeErr)
    \/ HealthCheckSnapshot
    \/ \E n \in Names, p \in Provs, probeErr \in BOOLEAN : HealthCheckProbe(n, p, probeErr)
    \/ \E n \in Names : GetProviderInfo(n)
    \/ \E k \in MutationKinds : MutateInfo(k)

SpecInfo == Init /\ [][NextInfo]_vars

\* ---------------------------------------------------------------------------
\* The factory over a changing registry
\* ---------------------------------------------------------------------------
FacProvs   == {1, 2, 4}
FacCaps    == {"stt", "tts"}
FacCallers == {1}

NextFac ==
    \/ \E p \in FacProvs : Register(p)
    \/ \E n \in Names, closeErr \in BOOLEAN : Unregister(n, closeErr)
    \/ HealthCheckSnapshot
    \/ \E n \in Names, p \in Provs, probeErr \in BOOLEAN : HealthCheckProbe(n, p, probeErr)
    \/ \E t \in FacCallers, c \in FacCaps, n \in Names : CreateService(t, c, n)
    \/ \E t \in FacCallers : CreateGet(t)
    \/ \E t \in FacCallers : CreateSet(t)
    \/ ClearCache
    \/ \E n \in Names : ClearCacheForProvider(n)

SpecFac == Init /\ [][NextFac]_vars

\* ---------------------------------------------------------------------------
\* Two goroutines calling the factory at once.  getInitLock (lines 223-234) has
\* no caller in the package, so no step of Create<Cap>Service takes an
\* initialization lock.
\* ---------------------------------------------------------------------------
NextFacPair ==
    \/ \E p \in FacProvs : Register(p)
    \/ \E n \in Names : Unregister(n, FALSE)
    \/ \E t \in Callers, c \in FacCaps, n \in Names : CreateService(t, c, n)
    \/ \E t \in Callers : CreateGet(t)
    \/ \E t \in Callers : CreateSet(t)
    \/ ClearCache

SpecFacPair == Init /\ [][NextFacPair]_vars

\* ---------------------------------------------------------------------------
\* The fallback wrapper over a changing registry
\* ---------------------------------------------------------------------------
InitFallback ==
    /\ InitRegistry
    /\ InitFactory
    /\ fallbackCfg \in {[c \in Capability |-> f] : f \in {"", "b"}}
    /\ InitMinimax
    /\ InitExt
    /\ ret = NoRet

NextFallback ==
    \/ \E p \in FacProvs : Register(p)
    \/ \E n \in Names, closeErr \in BOOLEAN : Unregister(n, closeErr)
    \/ HealthCheckSnapshot
    \/ \E n \in Names, p \in Provs, probeErr \in BOOLEAN : HealthCheckProbe(n, p, probeErr)
    \/ \E t \in FacCallers, c \in FacCaps, n \in Names : WrapperCreateService(t, c, n)
    \/ \E t \in FacCallers : FallbackCheckCache(t)
    \/ \E t \in FacCallers : CreateGet(t)
    \/ \E t \in FacCallers : CreateSet(t)
    \/ \E n \in Names : ClearCacheForProvider(n)

SpecFallback == InitFallback /\ [][NextFallback]_vars

\* ---------------------------------------------------------------------------
\* Minimax streaming TTS client (minimax/plugin.go)
\* ---------------------------------------------------------------------------
\* most audio chunks the server sends, most messages the connection carries
MaxChunks == 11
MaxWire == 3

\* NewTTSClient, lines 360-361: make(chan []byte, 10), make(chan error, 1)
AudioChCap == 10
ErrChCap == 1

\* conn.WriteJSON: the network decides; a closed connection never accepts
WriteOutcomes == IF connClosed \/ Len(wire) >= MaxWire THEN {"fail"} ELSE {"ok", "fail"}

\* select { case ch <- v: default: } on errCh
TrySend(ch, v) == IF Len(ch) < ErrChCap THEN Append(ch, v) ELSE ch

readerVars == <<rpc, rchunk, arrived, finished>>

\* Send, lines 653-678
MinimaxSend ==
    /\ ~panicked
    /\ IF closed
       THEN /\ ret' = StreamRet("Send", "TTS client is closed", 0, FALSE)
            /\ wire' = wire
       ELSE \E w \in WriteOutcomes :
              IF w = "ok"
              THEN /\ wire' = Append(wire, "task_continue")
                   /\ ret' = StreamRet("Send", "nil", 0, TRUE)
              ELSE /\ wire' = wire
                   /\ ret' = StreamRet("Send", "failed to send TTS request", 0, FALSE)
    /\ UNCHANGED <<regVars, infoVars, facVars, extVars, closed, doneCh, audioCh, errCh,
                   connClosed, readerVars, delivered, ctxDone, closeReturned, panicked>>

\* Receive, lines 681-692: select takes any one of the ready cases
MinimaxReceive ==
    /\ ~panicked
    /\ \/ /\ Len(audioCh) > 0
          /\ audioCh' = Tail(audioCh)
          /\ delivered' = Append(delivered, Head(audioCh))
          /\ ret' = StreamRet("Receive", "nil", Head(audioCh), FALSE)
          /\ errCh' = errCh
       \/ /\ Len(errCh) > 0
          /\ errCh' = Tail(errCh)
          /\ ret' = StreamRet("Receive", Head(errCh), 0, FALSE)
          /\ UNCHANGED <<audioCh, delivered>>
       \/ /\ doneCh = "closed"
          /\ ret' = StreamRet("Receive", "EOF", 0, FALSE)
          /\ UNCHANGED <<audioCh, errCh, delivered>>
       \/ /\ ctxDone
          /\ ret' = StreamRet("Receive", "context canceled", 0, FALSE)
          /\ UNCHANGED <<audioCh, errCh, delivered>>
    /\ UNCHANGED <<regVars, infoVars, facVars, extVars, closed, doneCh, connClosed, wire,
                   readerVars, ctxDone, closeReturned, panicked>>

\* the caller cancels the context it passes to Receive
CancelCtx ==
    /\ ~panicked /\ ~ctxDone
    /\ ctxDone' = TRUE
    /\ ret' = StreamRet("CancelCtx", "nil", 0, FALSE)
    /\ UNCHANGED <<regVars, infoVars, facVars, extVars, closed, doneCh, audioCh, errCh,
                   connClosed, wire, readerVars, delivered, closeReturned, panicked>>

\* Close, lines 695-717, the body under c.mu: close(c.doneCh) on a channel
\* that is already closed panics
CloseBody(w) ==
    IF closed
    THEN UNCHANGED <<closed, doneCh, connClosed, wire, panicked>>
    ELSE IF w = "ok"
         THEN /\ wire' = Append(wire, "task_finish")
              /\ UNCHANGED <<closed, doneCh, connClosed, panicked>>
         ELSE /\ closed' = TRUE
              /\ wire' = wire
              /\ IF doneCh = "closed"
                 THEN /\ panicked' = TRUE
                      /\ UNCHANGED <<doneCh, connClosed>>
                 ELSE /\ doneCh' = "closed"
                      /\ connClosed' = TRUE
                      /\ panicked' = FALSE

\* Close called by the user of the client
MinimaxClose ==
    /\ ~panicked
    /\ \E w \in WriteOutcomes :
         /\ CloseBody(w)
         /\ ret' = StreamRet("Close", "nil", 0, ~closed /\ w = "ok")
    /\ closeReturned' = (closeReturned \/ ~panicked')
    /\ UNCHANGED <<regVars, infoVars, facVars, extVars, audioCh, errCh, readerVars,
                   delivered, ctxDone>>

ReaderRet == StreamRet("readMessages", "nil", 0, FALSE)

\* readMessages, lines 730-735: the loop's check of c.closed
ReadLoop ==
    /\ ~panicked /\ rpc = "loop"
    /\ rpc' = IF closed THEN "defer" ELSE "read"
    /\ ret' = ReaderRet
    /\ UNCHANGED <<regVars, infoVars, facVars, extVars, closed, doneCh, audioCh, errCh,
                   connClosed, wire, rchunk, arrived, finished, delivered,
                   ctxDone, closeReturned, panicked>>

\* readMessages, lines 737 and 753-762: ReadMessage returns the next frame the
\* server sent or an error; on a closed connection it returns an error
ReadMessage ==
    /\ ~panicked /\ rpc = "read"
    /\ \E frame \in IF connClosed THEN {"error"}
                    ELSE {"task_continued", "other", "task_finished",
                          "task_failed", "error"} :
         /\ frame = "task_continued" => arrived < MaxChunks
         /\ rpc' = CASE frame = "task_continued" -> "send_audio"
                     [] frame = "other"          -> "loop"
                     [] frame = "task_finished"  -> "fin_lock"
                     [] frame = "task_failed"    -> "fail_lock"
                     [] OTHER                    -> "err_lock"
         /\ arrived' = IF frame = "task_continued" THEN arrived + 1 ELSE arrived
         /\ rchunk' = IF frame = "task_continued" THEN arrived + 1 ELSE rchunk
    /\ ret' = ReaderRet
    /\ UNCHANGED <<regVars, infoVars, facVars, extVars, closed, doneCh, audioCh, errCh,
                   connClosed, wire, finished, delivered, ctxDone,
                   closeReturned, panicked>>

\* readMessages, lines 739-741: wasClosed := c.closed
ReadErrLock ==
    /\ ~panicked /\ rpc = "err_lock"
    /\ rpc' = IF closed THEN "defer" ELSE "err_send"
    /\ ret' = ReaderRet
    /\ UNCHANGED <<regVars, infoVars, facVars, extVars, closed, doneCh, audioCh, errCh,
                   connClosed, wire, rchunk, arrived, finished, delivered,
                   ctxDone, closeReturned, panicked>>

\* readMessages, lines 744-747: the read error goes to errCh if there is room
ReadErrSend ==
    /\ ~panicked /\ rpc = "err_send"
    /\ errCh' = TrySend(errCh, "TTS read error")
    /\ rpc' = "err_close"
    /\ ret' = ReaderRet
    /\ UNCHANGED <<regVars, infoVars, facVars, extVars, closed, doneCh, audioCh,
                   connClosed, wire, rchunk, arrived, finished, delivered,
                   ctxDone, closeReturned, panicked>>

\* readMessages, line 748: c.Close() called by the reader
ReadErrClose ==
    /\ ~panicked /\ rpc = "err_close"
    /\ \E w \in WriteOutcomes : CloseBody(w)
    /\ rpc' = "defer"
    /\ ret' = ReaderRet
    /\ UNCHANGED <<regVars, infoVars, facVars, extVars, audioCh, errCh, rchunk, arrived,
                   finished, delivered, ctxDone, closeReturned>>

\* readMessages, lines 776-783: select between the send on audioCh and doneCh
ReadSendAudio ==
    /\ ~panicked /\ rpc = "send_audio"
    /\ \/ /\ Len(audioCh) < AudioChCap
          /\ audioCh' = Append(audioCh, rchunk)
          /\ rpc' = "loop"
       \/ /\ doneCh = "closed"
          /\ audioCh' = audioCh
          /\ rpc' = "defer"
    /\ ret' = ReaderRet
    /\ UNCHANGED <<regVars, infoVars, facVars, extVars, closed, doneCh, errCh, connClosed,
                   wire, rchunk, arrived, finished, delivered, ctxDone,
                   closeReturned, panicked>>

\* readMessages, lines 786-792: task_finished
ReadFinished ==
    /\ ~panicked /\ rpc = "fin_lock"
    /\ IF ~closed
       THEN /\ closed' = TRUE
            /\ IF doneCh = "closed"
               THEN panicked' = TRUE /\ doneCh' = doneCh
               ELSE panicked' = FALSE /\ doneCh' = "closed"
       ELSE UNCHANGED <<closed, doneCh, panicked>>
    /\ finished' = TRUE
    /\ rpc' = "connclose"
    /\ ret' = ReaderRet
    /\ UNCHANGED <<regVars, infoVars, facVars, extVars, audioCh, errCh, connClosed, wire,
                   rchunk, arrived, delivered, ctxDone, closeReturned>>

\* readMessages, lines 796-807: task_failed
ReadFailed ==
    /\ ~panicked /\ rpc = "fail_lock"
    /\ IF ~closed
       THEN /\ closed' = TRUE
            /\ errCh' = TrySend(errCh, "TTS task failed")
            /\ IF doneCh = "closed"
               THEN panicked' = TRUE /\ doneCh' = doneCh
               ELSE panicked' = FALSE /\ doneCh' = "closed"
       ELSE UNCHANGED <<closed, errCh, doneCh, panicked>>
    /\ rpc' = "connclose"
    /\ ret' = ReaderRet
    /\ UNCHANGED <<regVars, infoVars, facVars, extVars, audioCh, connClosed, wire, rchunk,
                   arrived, finished, delivered, ctxDone, closeReturned>>

\* readMessages, lines 793 and 808: c.conn.Close() after the lock is released
ReadConnClose ==
    /\ ~panicked /\ rpc = "connclose"
    /\ connClosed' = TRUE
    /\ rpc' = "defer"
    /\ ret' = ReaderRet
    /\ UNCHANGED <<regVars, infoVars, facVars, extVars, closed, doneCh, audioCh, errCh,
                   wire, rchunk, arrived, finished, delivered, ctxDone,
                   closeReturned, panicked>>

\* readMessages, lines 721-727: the deferred cleanup closes doneCh when
\* c.closed is false, and leaves c.closed false
ReadDefer ==
    /\ ~panicked /\ rpc = "defer"
    /\ IF ~closed
       THEN IF doneCh = "closed"
            THEN panicked' = TRUE /\ doneCh' = doneCh
            ELSE panicked' = FALSE /\ doneCh' = "closed"
       ELSE UNCHANGED <<doneCh, panicked>>
    /\ rpc' = "exited"
    /\ ret' = ReaderRet
    /\ UNCHANGED <<regVars, infoVars, facVars, extVars, closed, audioCh, errCh, connClosed,
                   wire, rchunk, arrived, finished, delivered, ctxDone,
                   closeReturned>>

NextMinimax ==
    \/ MinimaxSend
    \/ MinimaxReceive
    \/ CancelCtx
    \/ MinimaxClose
    \/ ReadLoop
    \/ ReadMessage
    \/ ReadErrLock
    \/ ReadErrSend
    \/ ReadErrClose
    \/ ReadSendAudio
    \/ ReadFinished
    \/ ReadFailed
    \/ ReadConnClose
    \/ ReadDefer

SpecMinimax == Init /\ [][NextMinimax]_vars

\* ---------------------------------------------------------------------------
\* Cartesia streaming STT client (cartesia/plugin.go)
\* ---------------------------------------------------------------------------
\* most transcript frames the server sends to an STT client
MaxResults == 2

\* NewSTTClient, line 297: make(chan *models.STTResult, 10)
ResultChCap == 10

sttFrame == <<regVars, infoVars, facVars, audioCh, finals, trVars, supaVars, discVars, reloadVars, streamVars, volVars, lockVars, ytVars>>

\* Send, lines 381-395
CartesiaSend ==
    /\ ~panicked
    /\ IF closed
       THEN /\ ret' = StreamRet("Send", "STT client is closed", 0, FALSE)
            /\ wire' = wire
       ELSE \E w \in WriteOutcomes :
              IF w = "ok"
              THEN /\ wire' = Append(wire, "audio")
                   /\ ret' = StreamRet("Send", "nil", 0, TRUE)
              ELSE /\ wire' = wire
                   /\ ret' = StreamRet("Send", "failed to send audio", 0, FALSE)
    /\ UNCHANGED <<sttFrame, closed, doneCh, errCh, connClosed, readerVars,
                   delivered, ctxDone, closeReturned, panicked, resultCh>>

\* Receive, lines 398-409: select takes any one of the ready cases
CartesiaReceive ==
    /\ ~panicked
    /\ \/ /\ Len(resultCh) > 0
          /\ resultCh' = Tail(resultCh)
          /\ delivered' = Append(delivered, Head(resultCh))
          /\ ret' = StreamRet("Receive", "nil", Head(resultCh), FALSE)
          /\ errCh' = errCh
       \/ /\ Len(errCh) > 0
          /\ errCh' = Tail(errCh)
          /\ ret' = StreamRet("Receive", Head(errCh), 0, FALSE)
          /\ UNCHANGED <<resultCh, delivered>>
       \/ /\ doneCh = "closed"
          /\ ret' = StreamRet("Receive", "EOF", 0, FALSE)
          /\ UNCHANGED <<resultCh, errCh, delivered>>
       \/ /\ ctxDone
          /\ ret' = StreamRet("Receive", "context canceled", 0, FALSE)
          /\ UNCHANGED <<resultCh, errCh, delivered>>
    /\ UNCHANGED <<sttFrame, closed, doneCh, connClosed, wire, readerVars,
                   ctxDone, closeReturned, panicked>>

\* Close, lines 412-423, the body under c.mu
CartesiaCloseBody ==
    IF closed
    THEN UNCHANGED <<closed, doneCh, connClosed, panicked>>
    ELSE /\ closed' = TRUE
         /\ IF doneCh = "closed"
            THEN /\ panicked' = TRUE
                 /\ UNCHANGED <<doneCh, connClosed>>
            ELSE /\ doneCh' = "closed"
                 /\ connClosed' = TRUE
                 /\ panicked' = FALSE

\* Close called by the user of the client
CartesiaClose ==
    /\ ~panicked
    /\ CartesiaCloseBody
    /\ ret' = StreamRet("Close", "nil", 0, FALSE)
    /\ closeReturned' = (closeReturned \/ ~panicked')
    /\ UNCHANGED <<sttFrame, errCh, wire, readerVars, delivered, ctxDone, resultCh>>

\* Finalize, lines 427-441
CartesiaFinalize ==
    /\ ~panicked
    /\ IF closed
       THEN /\ ret' = StreamRet("Finalize", "nil", 0, FALSE)
            /\ wire' = wire
       ELSE \E w \in WriteOutcomes :
              IF w = "ok"
              THEN /\ wire' = Append(wire, "finalize")
                   /\ ret' = StreamRet("Finalize", "nil", 0, TRUE)
              ELSE /\ wire' = wire
                   /\ ret' = StreamRet("Finalize", "failed to send finalize command", 0, FALSE)
    /\ UNCHANGED <<sttFrame, closed, doneCh, errCh, connClosed, readerVars,
                   delivered, ctxDone, closeReturned, panicked, resultCh>>

\* Flush, lines 444-459: marks the client closed, closes nothing
CartesiaFlush ==
    /\ ~panicked
    /\ IF closed
       THEN /\ ret' = StreamRet("Flush", "nil", 0, FALSE)
            /\ UNCHANGED <<wire, closed>>
       ELSE \E w \in WriteOutcomes :
              IF w = "ok"
              THEN /\ wire' = Append(wire, "done")
                   /\ closed' = TRUE
                   /\ ret' = StreamRet("Flush", "nil", 0, TRUE)
              ELSE /\ UNCHANGED <<wire, closed>>
                   /\ ret' = StreamRet("Flush", "failed to send done command", 0, FALSE)
    /\ UNCHANGED <<sttFrame, doneCh, errCh, connClosed, readerVars, delivered,
                   ctxDone, closeReturned, panicked, resultCh>>

\* readMessages, lines 471-477: the loop's check of c.closed
CartesiaReadLoop ==
    /\ ~panicked /\ rpc = "loop"
    /\ rpc' = IF closed THEN "defer" ELSE "read"
    /\ ret' = ReaderRet
    /\ UNCHANGED <<sttFrame, closed, doneCh, errCh, connClosed, wire, rchunk,
                   arrived, finished, delivered, ctxDone, closeReturned,
                   panicked, resultCh>>

\* readMessages, lines 479 and 496-505: ReadMessage returns the next frame the
\* server sent or an error; on a closed connection it returns an error
CartesiaReadMessage ==
    /\ ~panicked /\ rpc = "read"
    /\ \E frame \in IF connClosed THEN {"read error"}
                    ELSE {"transcript", "flush_done", "error", "done", "read error"} :
         /\ frame = "transcript" => arrived < MaxResults
         /\ rpc' = CASE frame = "transcript" -> "send_result"
                     [] frame = "flush_done" -> "loop"
                     [] frame = "error"      -> "frame_err_send"
                     [] frame = "done"       -> "close"
                     [] OTHER                -> "err_lock"
         /\ arrived' = IF frame = "transcript" THEN arrived + 1 ELSE arrived
         /\ rchunk' = IF frame = "transcript" THEN arrived + 1 ELSE rchunk
    /\ ret' = ReaderRet
    /\ UNCHANGED <<sttFrame, closed, doneCh, errCh, connClosed, wire, finished,
                   delivered, ctxDone, closeReturned, panicked, resultCh>>

\* readMessages, lines 481-483: wasClosed := c.closed
CartesiaReadErrLock ==
    /\ ~panicked /\ rpc = "err_lock"
    /\ rpc' = IF closed THEN "defer" ELSE "err_send"
    /\ ret' = ReaderRet
    /\ UNCHANGED <<sttFrame, closed, doneCh, errCh, connClosed, wire, rchunk,
                   arrived, finished, delivered, ctxDone, closeReturned,
                   panicked, resultCh>>

\* readMessages, lines 487-490 (read error) and 517-520 (error frame): the
\* error goes to errCh if there is room
CartesiaReadErrSend ==
    /\ ~panicked /\ rpc \in {"err_send", "frame_err_send"}
    /\ errCh' = TrySend(errCh, IF rpc = "err_send" THEN "STT read error"
                                                   ELSE "Cartesia STT error")
    /\ rpc' = "close"
    /\ ret' = ReaderRet
    /\ UNCHANGED <<sttFrame, closed, doneCh, connClosed, wire, rchunk, arrived,
                   finished, delivered, ctxDone, closeReturned, panicked,
                   resultCh>>

\* readMessages, lines 491, 521 and 528: c.Close() called by the reader
CartesiaReadClose ==
    /\ ~panicked /\ rpc = "close"
    /\ CartesiaCloseBody
    /\ rpc' = "defer"
    /\ ret' = ReaderRet
    /\ UNCHANGED <<sttFrame, errCh, wire, rchunk, arrived, finished, delivered,
                   ctxDone, closeReturned, resultCh>>

\* readMessages, lines 507-512: select between the send on resultCh and doneCh
CartesiaReadSendResult ==
    /\ ~panicked /\ rpc = "send_result"
    /\ \/ /\ Len(resultCh) < ResultChCap
          /\ resultCh' = Append(resultCh, rchunk)
          /\ rpc' = "loop"
       \/ /\ doneCh = "closed"
          /\ resultCh' = resultCh
          /\ rpc' = "defer"
    /\ ret' = ReaderRet
    /\ UNCHANGED <<sttFrame, closed, doneCh, errCh, connClosed, wire, rchunk,
                   arrived, finished, delivered, ctxDone, closeReturned, panicked>>

\* readMessages, lines 463-469: the deferred cleanup
CartesiaReadDefer ==
    /\ ~panicked /\ rpc = "defer"
    /\ IF ~closed
       THEN IF doneCh = "closed"
            THEN panicked' = TRUE /\ doneCh' = doneCh
            ELSE panicked' = FALSE /\ doneCh' = "closed"
       ELSE UNCHANGED <<doneCh, panicked>>
    /\ rpc' = "exited"
    /\ ret' = ReaderRet
    /\ UNCHANGED <<sttFrame, closed, errCh, connClosed, wire, rchunk, arrived,
                   finished, delivered, ctxDone, closeReturned, resultCh>>

\* the caller cancels the context it passes to Receive of an STT client
STTCancelCtx ==
    /\ ~panicked /\ ~ctxDone
    /\ ctxDone' = TRUE
    /\ ret' = StreamRet("CancelCtx", "nil", 0, FALSE)
    /\ UNCHANGED <<sttFrame, closed, doneCh, errCh, connClosed, wire, readerVars,
                   delivered, closeReturned, panicked, resultCh>>

NextCartesia ==
    \/ CartesiaSend
    \/ CartesiaReceive
    \/ CartesiaClose
    \/ CartesiaFinalize
    \/ CartesiaFlush
    \/ STTCancelCtx
    \/ CartesiaReadLoop
    \/ CartesiaReadMessage
    \/ CartesiaReadErrLock
    \/ CartesiaReadErrSend
    \/ CartesiaReadClose
    \/ CartesiaReadSendResult
    \/ CartesiaReadDefer

SpecCartesia == Init /\ [][NextCartesia]_vars

\* ---------------------------------------------------------------------------
\* Deepgram streaming STT client (deepgram/plugin.go)
\* ---------------------------------------------------------------------------
dgFrame == <<regVars, infoVars, facVars, audioCh, trVars, supaVars, discVars, reloadVars, streamVars, volVars, lockVars, ytVars>>

\* Send, lines 531-544
DeepgramSendBody ==
    IF closed
    THEN /\ ret' = StreamRet("Send", "STT client is closed", 0, FALSE)
         /\ wire' = wire
    ELSE \E w \in WriteOutcomes :
           IF w = "ok"
           THEN /\ wire' = Append(wire, "audio")
                /\ ret' = StreamRet("Send", "nil", 0, TRUE)
           ELSE /\ wire' = wire
                /\ ret' = StreamRet("Send", "failed to send audio", 0, FALSE)

DeepgramSend ==
    /\ ~panicked
    /\ DeepgramSendBody
    /\ UNCHANGED <<dgFrame, closed, doneCh, errCh, connClosed, readerVars,
                   delivered, ctxDone, closeReturned, panicked, resultCh, finals>>

DeepgramReceiveBody_noCtx ==
    \/ /\ Len(resultCh) > 0
       /\ resultCh' = Tail(resultCh)
       /\ delivered' = Append(delivered, Head(resultCh))
       /\ ret' = StreamRet("Receive", "nil", Head(resultCh), FALSE)
       /\ errCh' = errCh
    \/ /\ Len(errCh) > 0
       /\ errCh' = Tail(errCh)
       /\ ret' = StreamRet("Receive", Head(errCh), 0, FALSE)
       /\ UNCHANGED <<resultCh, delivered>>
    \/ /\ doneCh = "closed"
       /\ ret' = StreamRet("Receive", "EOF", 0, FALSE)
       /\ UNCHANGED <<resultCh, errCh, delivered>>

\* Receive, lines 547-558: select takes any one of the ready cases
DeepgramReceiveBody ==
    \/ /\ Len(resultCh) > 0
       /\ resultCh' = Tail(resultCh)
       /\ delivered' = Append(delivered, Head(resultCh))
       /\ ret' = StreamRet("Receive", "nil", Head(resultCh), FALSE)
       /\ errCh' = errCh
    \/ /\ Len(errCh) > 0
       /\ errCh' = Tail(errCh)
       /\ ret' = StreamRet("Receive", Head(errCh), 0, FALSE)
       /\ UNCHANGED <<resultCh, delivered>>
    \/ /\ doneCh = "closed"
       /\ ret' = StreamRet("Receive", "EOF", 0, FALSE)
       /\ UNCHANGED <<resultCh, errCh, delivered>>
    \/ /\ ctxDone
       /\ ret' = StreamRet("Receive", "context canceled", 0, FALSE)
       /\ UNCHANGED <<resultCh, errCh, delivered>>

DeepgramReceive ==
    /\ ~panicked
    /\ DeepgramReceiveBody
    /\ UNCHANGED <<dgFrame, closed, doneCh, connClosed, wire, readerVars,
                   ctxDone, closeReturned, panicked, finals>>

\* Close, lines 561-572, the body under c.mu
DeepgramCloseBody ==
    IF closed
    THEN UNCHANGED <<closed, doneCh, connClosed, panicked>>
    ELSE /\ closed' = TRUE
         /\ IF doneCh = "closed"
            THEN /\ panicked' = TRUE
                 /\ UNCHANGED <<doneCh, connClosed>>
            ELSE /\ doneCh' = "closed"
                 /\ connClosed' = TRUE
                 /\ panicked' = FALSE

\* Close called by the user of the client
DeepgramClose ==
    /\ ~panicked
    /\ DeepgramCloseBody
    /\ ret' = StreamRet("Close", "nil", 0, FALSE)
    /\ closeReturned' = (closeReturned \/ ~panicked')
    /\ UNCHANGED <<dgFrame, errCh, wire, readerVars, delivered, ctxDone,
                   resultCh, finals>>

\* Finalize, lines 575-598: writes CloseStream, changes no field of the client
DeepgramFinalizeBody ==
    IF closed
    THEN /\ ret' = StreamRet("Finalize", "STT client is closed", 0, FALSE)
         /\ wire' = wire
    ELSE \E w \in WriteOutcomes :
           IF w = "ok"
           THEN /\ wire' = Append(wire, "CloseStream")
                /\ ret' = StreamRet("Finalize", "nil", 0, TRUE)
           ELSE /\ wire' = wire
                /\ ret' = StreamRet("Finalize", "failed to send close stream message",
                                    0, FALSE)

DeepgramFinalize ==
    /\ ~panicked
    /\ DeepgramFinalizeBody
    /\ UNCHANGED <<dgFrame, closed, doneCh, errCh, connClosed, readerVars,
                   delivered, ctxDone, closeReturned, panicked, resultCh, finals>>

\* readMessages, lines 610-616: the loop's check of c.closed
DeepgramReadLoop ==
    /\ ~panicked /\ rpc = "loop"
    /\ rpc' = IF closed THEN "defer" ELSE "read"
    /\ ret' = ReaderRet
    /\ UNCHANGED <<dgFrame, closed, doneCh, errCh, connClosed, wire, rchunk,
                   arrived, finished, delivered, ctxDone, closeReturned,
                   panicked, resultCh, finals>>

\* readMessages, lines 618 and 642-655: ReadMessage returns the next frame the
\* server sent, the server's normal close (1000) or another error; on a
\* connection closed locally it returns an error.  A Results frame carries
\* is_final or not.
DeepgramReadMessage ==
    /\ ~panicked /\ rpc = "read"
    /\ \E frame \in IF connClosed THEN {"read error"}
                    ELSE {"Results", "other", "normal close", "read error"},
          isFinal \in BOOLEAN :
         /\ frame = "Results" => arrived < MaxResults
         /\ frame # "Results" => isFinal = FALSE
         /\ rpc' = CASE frame = "Results"      -> "send_result"
                     [] frame = "other"        -> "loop"
                     [] frame = "normal close" -> "err_lock_normal"
                     [] OTHER                  -> "err_lock"
         /\ arrived' = IF frame = "Results" THEN arrived + 1 ELSE arrived
         /\ rchunk' = IF frame = "Results" THEN arrived + 1 ELSE rchunk
         /\ finals' = IF isFinal THEN finals \cup {arrived + 1} ELSE finals
         /\ finished' = (finished \/ frame = "normal close")
    /\ ret' = ReaderRet
    /\ UNCHANGED <<dgFrame, closed, doneCh, errCh, connClosed, wire, delivered,
                   ctxDone, closeReturned, panicked, resultCh>>

\* readMessages, lines 620-630: wasClosed := c.closed, then the kind of error
DeepgramReadErrLock ==
    /\ ~panicked /\ rpc \in {"err_lock", "err_lock_normal"}
    /\ rpc' = IF closed THEN "defer"
              ELSE IF rpc = "err_lock_normal" THEN "close" ELSE "err_send"
    /\ ret' = ReaderRet
    /\ UNCHANGED <<dgFrame, closed, doneCh, errCh, connClosed, wire, rchunk,
                   arrived, finished, delivered, ctxDone, closeReturned,
                   panicked, resultCh, finals>>

\* readMessages, lines 633-636: the read error goes to errCh if there is room
DeepgramReadErrSend ==
    /\ ~panicked /\ rpc = "err_send"
    /\ errCh' = TrySend(errCh, "STT read error")
    /\ rpc' = "close"
    /\ ret' = ReaderRet
    /\ UNCHANGED <<dgFrame, closed, doneCh, connClosed, wire, rchunk, arrived,
                   finished, delivered, ctxDone, closeReturned, panicked,
                   resultCh, finals>>

\* readMessages, lines 628 and 637: c.Close() called by the reader
DeepgramReadClose ==
    /\ ~panicked /\ rpc = "close"
    /\ DeepgramCloseBody
    /\ rpc' = "defer"
    /\ ret' = ReaderRet
    /\ UNCHANGED <<dgFrame, errCh, wire, rchunk, arrived, finished, delivered,
                   ctxDone, closeReturned, resultCh, finals>>

DeepgramReadSendResult_lifo ==
    /\ ~panicked /\ rpc = "send_result"
    /\ \/ /\ Len(resultCh) < ResultChCap
          /\ resultCh' = <<rchunk>> \o resultCh
          /\ rpc' = "loop"
       \/ /\ doneCh = "closed"
          /\ resultCh' = resultCh
          /\ rpc' = "defer"
    /\ ret' = ReaderRet
    /\ UNCHANGED <<dgFrame, closed, doneCh, errCh, connClosed, wire, rchunk,
                   arrived, finished, delivered, ctxDone, closeReturned,
                   panicked, finals>>

\* readMessages, lines 665-669: select between the send on resultCh and doneCh
DeepgramReadSendResult ==
    /\ ~panicked /\ rpc = "send_result"
    /\ \/ /\ Len(resultCh) < ResultChCap
          /\ resultCh' = Append(resultCh, rchunk)
          /\ rpc' = "loop"
       \/ /\ doneCh = "closed"
          /\ resultCh' = resultCh
          /\ rpc' = "defer"
    /\ ret' = ReaderRet
    /\ UNCHANGED <<dgFrame, closed, doneCh, errCh, connClosed, wire, rchunk,
                   arrived, finished, delivered, ctxDone, closeReturned,
                   panicked, finals>>

\* readMessages, lines 602-608: the deferred cleanup
DeepgramReadDefer ==
    /\ ~panicked /\ rpc = "defer"
    /\ IF ~closed
       THEN IF doneCh = "closed"
            THEN panicked' = TRUE /\ doneCh' = doneCh
            ELSE panicked' = FALSE /\ doneCh' = "closed"
       ELSE UNCHANGED <<doneCh, panicked>>
    /\ rpc' = "exited"
    /\ ret' = ReaderRet
    /\ UNCHANGED <<dgFrame, closed, errCh, connClosed, wire, rchunk, arrived,
                   finished, delivered, ctxDone, closeReturned, resultCh, finals>>

DeepgramReader ==
    \/ DeepgramReadLoop
    \/ DeepgramReadMessage
    \/ DeepgramReadErrLock
    \/ DeepgramReadErrSend
    \/ DeepgramReadClose
    \/ DeepgramReadSendResult
    \/ DeepgramReadDefer

NextDeepgram ==
    \/ DeepgramSend
    \/ DeepgramReceive
    \/ DeepgramClose
    \/ DeepgramFinalize
    \/ STTCancelCtx
    \/ DeepgramReader

SpecDeepgram == Init /\ [][NextDeepgram]_vars

\* A caller that only receives, closes and cancels, next to the reader; the
\* goroutine blocked in Receive's select runs once a case is ready
NextDeepgramReceiver ==
    \/ DeepgramReceive
    \/ DeepgramClose
    \/ STTCancelCtx
    \/ DeepgramReader

SpecDeepgramLive ==
    Init /\ [][NextDeepgramReceiver]_vars /\ WF_vars(DeepgramReceive)

\* ---------------------------------------------------------------------------
\* DeepgramSTTService.Transcribe (deepgram/plugin.go lines 419-488)
\* ---------------------------------------------------------------------------
trFrame == <<regVars, infoVars, facVars, audioCh, supaVars, discVars, reloadVars, streamVars, volVars, lockVars, ytVars>>

\* Transcribe returns (text, err); the deferred client.Close() is still to run
TranscribeReturns(text, err) ==
    /\ tret' = [text |-> text, err |-> err]
    /\ tpc' = "defer"

\* lines 454-469: audio.Read returned n > 0 bytes, which go to client.Send
TranscribeSend ==
    /\ ~panicked /\ tpc = "send"
    /\ DeepgramSendBody
    /\ IF ret'.err = "nil"
       THEN UNCHANGED <<tpc, tret>>
       ELSE TranscribeReturns(<<>>, "failed to send audio")
    /\ UNCHANGED <<trFrame, closed, doneCh, errCh, connClosed, readerVars,
                   delivered, ctxDone, closeReturned, panicked, resultCh, finals,
                   cpc, fullText, trResultCh, trErrCh>>

\* lines 455-461: audio.Read returned io.EOF (the loop ends) or another error
TranscribeAudioEnd ==
    /\ ~panicked /\ tpc = "send"
    /\ \E readErr \in {"EOF", "error"} :
         IF readErr = "EOF"
         THEN tpc' = "finalize" /\ tret' = tret
         ELSE TranscribeReturns(<<>>, "failed to read audio")
    /\ ret' = StreamRet("Transcribe", "nil", 0, FALSE)
    /\ UNCHANGED <<trFrame, closed, doneCh, errCh, connClosed, wire, readerVars,
                   delivered, ctxDone, closeReturned, panicked, resultCh, finals,
                   cpc, fullText, trResultCh, trErrCh>>

\* lines 473-477: Finalize
TranscribeFinalize ==
    /\ ~panicked /\ tpc = "finalize"
    /\ DeepgramFinalizeBody
    /\ IF ret'.err = "nil"
       THEN tpc' = "wait" /\ tret' = tret
       ELSE TranscribeReturns(<<>>, "failed to finalize audio stream")
    /\ UNCHANGED <<trFrame, closed, doneCh, errCh, connClosed, readerVars,
                   delivered, ctxDone, closeReturned, panicked, resultCh, finals,
                   cpc, fullText, trResultCh, trErrCh>>

\* lines 480-487: select over the local resultCh, the local errCh and ctx.Done()
TranscribeWait ==
    /\ ~panicked /\ tpc = "wait"
    /\ \/ /\ Len(trResultCh) > 0
          /\ TranscribeReturns(Head(trResultCh), "nil")
          /\ trResultCh' = Tail(trResultCh)
          /\ trErrCh' = trErrCh
       \/ /\ Len(trErrCh) > 0
          /\ TranscribeReturns(<<>>, Head(trErrCh))
          /\ trErrCh' = Tail(trErrCh)
          /\ trResultCh' = trResultCh
       \/ /\ ctxDone
          /\ TranscribeReturns(<<>>, "context canceled")
          /\ UNCHANGED <<trResultCh, trErrCh>>
    /\ ret' = StreamRet("Transcribe", "nil", 0, FALSE)
    /\ UNCHANGED <<trFrame, closed, doneCh, errCh, connClosed, wire, readerVars,
                   delivered, ctxDone, closeReturned, panicked, resultCh, finals,
                   cpc, fullText>>

\* line 425: the deferred client.Close() runs when Transcribe returns
TranscribeDeferClose ==
    /\ ~panicked /\ tpc = "defer"
    /\ DeepgramCloseBody
    /\ tpc' = "returned"
    /\ ret' = StreamRet("Close", "nil", 0, FALSE)
    /\ closeReturned' = (closeReturned \/ ~panicked')
    /\ UNCHANGED <<trFrame, errCh, wire, readerVars, delivered, ctxDone,
                   resultCh, finals, cpc, fullText, trResultCh, trErrCh, tret>>

\* lines 432-449: one turn of the collector: Receive, then fullText grows by
\* Text + " " for a final result, or the collector ends on an error
TranscribeCollect ==
    /\ ~panicked /\ cpc = "run"
    /\ DeepgramReceiveBody
    /\ IF ret'.err = "nil"
       THEN /\ fullText' = IF ret'.chunk \in finals
                           THEN fullText \o <<ret'.chunk, " ">>
                           ELSE fullText
            /\ UNCHANGED <<cpc, trResultCh, trErrCh>>
       ELSE IF ret'.err = "EOF"
       THEN /\ trResultCh' = Append(trResultCh, fullText)
            /\ cpc' = "done"
            /\ UNCHANGED <<fullText, trErrCh>>
       ELSE /\ trErrCh' = Append(trErrCh, "failed to receive result")
            /\ cpc' = "done"
            /\ UNCHANGED <<fullText, trResultCh>>
    /\ UNCHANGED <<trFrame, closed, doneCh, connClosed, wire, readerVars,
                   ctxDone, closeReturned, panicked, finals, tpc, tret>>

\* the caller of Transcribe cancels ctx
TranscribeCancelCtx ==
    /\ ~panicked /\ ~ctxDone
    /\ ctxDone' = TRUE
    /\ ret' = StreamRet("CancelCtx", "nil", 0, FALSE)
    /\ UNCHANGED <<dgFrame, closed, doneCh, errCh, connClosed, wire, readerVars,
                   delivered, closeReturned, panicked, resultCh, finals>>

NextTranscribe ==
    \/ TranscribeSend
    \/ TranscribeAudioEnd
    \/ TranscribeFinalize
    \/ TranscribeWait
    \/ TranscribeDeferClose
    \/ TranscribeCollect
    \/ TranscribeCancelCtx
    \/ DeepgramReader

SpecTranscribe == Init /\ [][NextTranscribe]_vars

\* ---------------------------------------------------------------------------
\* Yandex STT (part_003): the streaming client and Transcribe.  The client has
\* the fields of the other STT clients; its transport is a gRPC stream, whose
\* Recv returns io.EOF when the server has ended the stream.
\* ---------------------------------------------------------------------------
ysFrame == <<closed, doneCh, errCh, connClosed, wire, readerVars, delivered,
             ctxDone, closeReturned, panicked, resultCh, finals>>

\* Send, lines 325-347
YandexSTTSendBody ==
    IF closed
    THEN /\ ret' = StreamRet("Send", "STT client is closed", 0, FALSE)
         /\ wire' = wire
    ELSE \E w \in WriteOutcomes :
           IF w = "ok"
           THEN /\ wire' = Append(wire, "audio")
                /\ ret' = StreamRet("Send", "nil", 0, TRUE)
           ELSE /\ wire' = wire
                /\ ret' = StreamRet("Send", "failed to send audio", 0, FALSE)

\* Receive, lines 350-361: select takes any one of the ready cases
YandexSTTReceiveBody ==
    \/ /\ Len(resultCh) > 0
       /\ resultCh' = Tail(resultCh)
       /\ delivered' = Append(delivered, Head(resultCh))
       /\ ret' = StreamRet("Receive", "nil", Head(resultCh), FALSE)
       /\ errCh' = errCh
    \/ /\ Len(errCh) > 0
       /\ errCh' = Tail(errCh)
       /\ ret' = StreamRet("Receive", Head(errCh), 0, FALSE)
       /\ UNCHANGED <<resultCh, delivered>>
    \/ /\ doneCh = "closed"
       /\ ret' = StreamRet("Receive", "EOF", 0, FALSE)
       /\ UNCHANGED <<resultCh, errCh, delivered>>
    \/ /\ ctxDone
       /\ ret' = StreamRet("Receive", "context canceled", 0, FALSE)
       /\ UNCHANGED <<resultCh, errCh, delivered>>

\* Close, lines 390-414, the body under c.mu: closed, close(doneCh),
\* stream.CloseSend(), conn.Close()
YandexSTTCloseBody ==
    IF closed
    THEN UNCHANGED <<closed, doneCh, connClosed, panicked>>
    ELSE /\ closed' = TRUE
         /\ IF doneCh = "closed"
            THEN /\ panicked' = TRUE
                 /\ UNCHANGED <<doneCh, connClosed>>
            ELSE /\ doneCh' = "closed"
                 /\ connClosed' = TRUE
                 /\ panicked' = FALSE

\* readMessages, lines 428-435: the loop's check of c.closed
YandexSTTReadLoop ==
    /\ ~panicked /\ rpc = "loop"
    /\ rpc' = IF closed THEN "defer" ELSE "read"
    /\ ret' = ReaderRet
    /\ UNCHANGED <<trFrame, trVars, closed, doneCh, errCh, connClosed, wire, rchunk,
                   arrived, finished, delivered, ctxDone, closeReturned,
                   panicked, resultCh, finals>>

\* readMessages, lines 437-438 and 469-472: stream.Recv() returns a response
\* with a result (final or not), a response parseResponse turns into nil,
\* io.EOF when the server ended the stream, or an error; on a connection
\* closed locally it returns an error
YandexSTTRecv ==
    /\ ~panicked /\ rpc = "read"
    /\ \E frame \in IF connClosed THEN {"read error"}
                    ELSE {"result", "other", "EOF", "read error"},
          isFinal \in BOOLEAN :
         /\ frame = "result" => arrived < MaxResults
         /\ frame # "result" => isFinal = FALSE
         /\ rpc' = CASE frame = "result" -> "send_result"
                     [] frame = "other"  -> "loop"
                     [] frame = "EOF"    -> "err_lock_normal"
                     [] OTHER            -> "err_lock"
         /\ arrived' = IF frame = "result" THEN arrived + 1 ELSE arrived
         /\ rchunk' = IF frame = "result" THEN arrived + 1 ELSE rchunk
         /\ finals' = IF isFinal THEN finals \cup {arrived + 1} ELSE finals
         /\ finished' = (finished \/ frame = "EOF")
    /\ ret' = ReaderRet
    /\ UNCHANGED <<trFrame, trVars, closed, doneCh, errCh, connClosed, wire,
                   delivered, ctxDone, closeReturned, panicked, resultCh>>

\* readMessages, lines 439-444: wasClosed := c.closed, then the kind of error
YandexSTTReadErrLock ==
    /\ ~panicked /\ rpc \in {"err_lock", "err_lock_normal"}
    /\ rpc' = IF closed THEN "defer"
              ELSE IF rpc = "err_lock_normal" THEN "close" ELSE "err_send"
    /\ ret' = ReaderRet
    /\ UNCHANGED <<trFrame, trVars, closed, doneCh, errCh, connClosed, wire, rchunk,
                   arrived, finished, delivered, ctxDone, closeReturned,
                   panicked, resultCh, finals>>

\* readMessages, lines 460-463: the read error goes to errCh if there is room
YandexSTTReadErrSend ==
    /\ ~panicked /\ rpc = "err_send"
    /\ errCh' = TrySend(errCh, "STT read error")
    /\ rpc' = "close"
    /\ ret' = ReaderRet
    /\ UNCHANGED <<trFrame, trVars, closed, doneCh, connClosed, wire, rchunk,
                   arrived, finished, delivered, ctxDone, closeReturned, panicked,
                   resultCh, finals>>

\* readMessages, lines 453 and 464: c.Close() called by the reader
YandexSTTReadClose ==
    /\ ~panicked /\ rpc = "close"
    /\ YandexSTTCloseBody
    /\ rpc' = "defer"
    /\ ret' = ReaderRet
    /\ UNCHANGED <<trFrame, trVars, errCh, wire, rchunk, arrived, finished,
                   delivered, ctxDone, closeReturned, resultCh, finals>>

\* readMessages, lines 483-487: select between the send on resultCh and doneCh
YandexSTTReadSendResult ==
    /\ ~panicked /\ rpc = "send_result"
    /\ \/ /\ Len(resultCh) < ResultChCap
          /\ resultCh' = Append(resultCh, rchunk)
          /\ rpc' = "loop"
       \/ /\ doneCh = "closed"
          /\ resultCh' = resultCh
          /\ rpc' = "defer"
    /\ ret' = ReaderRet
    /\ UNCHANGED <<trFrame, trVars, closed, doneCh, errCh, connClosed, wire, rchunk,
                   arrived, finished, delivered, ctxDone, closeReturned,
                   panicked, finals>>

\* readMessages, lines 418-424: the deferred cleanup
YandexSTTReadDefer ==
    /\ ~panicked /\ rpc = "defer"
    /\ IF ~closed
       THEN IF doneCh = "closed"
            THEN panicked' = TRUE /\ doneCh' = doneCh
            ELSE panicked' = FALSE /\ doneCh' = "closed"
       ELSE UNCHANGED <<doneCh, panicked>>
    /\ rpc' = "exited"
    /\ ret' = ReaderRet
    /\ UNCHANGED <<trFrame, trVars, closed, errCh, connClosed, wire, rchunk,
                   arrived, finished, delivered, ctxDone, closeReturned, resultCh,
                   finals>>

YandexSTTReader ==
    \/ YandexSTTReadLoop
    \/ YandexSTTRecv
    \/ YandexSTTReadErrLock
    \/ YandexSTTReadErrSend
    \/ YandexSTTReadClose
    \/ YandexSTTReadSendResult
    \/ YandexSTTReadDefer

\* Transcribe, lines 127-142: audio.Read returned n > 0 bytes, which go to
\* client.Send
YandexTranscribeSend ==
    /\ ~panicked /\ tpc = "send"
    /\ YandexSTTSendBody
    /\ IF ret'.err = "nil"
       THEN UNCHANGED <<tpc, tret>>
       ELSE TranscribeReturns(<<>>, "failed to send audio")
    /\ UNCHANGED <<trFrame, closed, doneCh, errCh, connClosed, readerVars,
                   delivered, ctxDone, closeReturned, panicked, resultCh, finals,
                   cpc, fullText, trResultCh, trErrCh>>

\* Transcribe, lines 128-134: audio.Read returned io.EOF (the loop ends) or
\* another error
YandexTranscribeAudioEnd ==
    /\ ~panicked /\ tpc = "send"
    /\ \E readErr \in {"EOF", "error"} :
         IF readErr = "EOF"
         THEN tpc' = "close" /\ tret' = tret
         ELSE TranscribeReturns(<<>>, "failed to read audio")
    /\ ret' = StreamRet("Transcribe", "nil", 0, FALSE)
    /\ UNCHANGED <<trFrame, ysFrame, cpc, fullText, trResultCh, trErrCh>>

\* Transcribe, line 145: client.Close() "to signal end of audio"
YandexTranscribeClose ==
    /\ ~panicked /\ tpc = "close"
    /\ YandexSTTCloseBody
    /\ tpc' = "wait"
    /\ ret' = StreamRet("Close", "nil", 0, FALSE)
    /\ closeReturned' = (closeReturned \/ ~panicked')
    /\ UNCHANGED <<trFrame, errCh, wire, readerVars, delivered, ctxDone,
                   resultCh, finals, cpc, fullText, trResultCh, trErrCh, tret>>

\* Transcribe, lines 148-155: select over the local resultCh, the local errCh
\* and ctx.Done()
YandexTranscribeWait ==
    /\ ~panicked /\ tpc = "wait"
    /\ \/ /\ Len(trResultCh) > 0
          /\ TranscribeReturns(Head(trResultCh), "nil")
          /\ trResultCh' = Tail(trResultCh)
          /\ trErrCh' = trErrCh
       \/ /\ Len(trErrCh) > 0
          /\ TranscribeReturns(<<>>, Head(trErrCh))
          /\ trErrCh' = Tail(trErrCh)
          /\ trResultCh' = trResultCh
       \/ /\ ctxDone
          /\ TranscribeReturns(<<>>, "context canceled")
          /\ UNCHANGED <<trResultCh, trErrCh>>
    /\ ret' = StreamRet("Transcribe", "nil", 0, FALSE)
    /\ UNCHANGED <<trFrame, ysFrame, cpc, fullText>>

\* Transcribe, line 100: the deferred client.Close() runs when Transcribe
\* returns
YandexTranscribeDeferClose ==
    /\ ~panicked /\ tpc = "defer"
    /\ YandexSTTCloseBody
    /\ tpc' = "returned"
    /\ ret' = StreamRet("Close", "nil", 0, FALSE)
    /\ closeReturned' = (closeReturned \/ ~panicked')
    /\ UNCHANGED <<trFrame, errCh, wire, readerVars, delivered, ctxDone,
                   resultCh, finals, cpc, fullText, trResultCh, trErrCh, tret>>

\* Transcribe, lines 107-124: one turn of the collector: Receive, then
\* fullText grows by Text + " " for a final result, or the collector ends
YandexTranscribeCollect ==
    /\ ~panicked /\ cpc = "run"
    /\ YandexSTTReceiveBody
    /\ IF ret'.err = "nil"
       THEN /\ fullText' = IF ret'.chunk \in finals
                           THEN fullText \o <<ret'.chunk, " ">>
                           ELSE fullText
            /\ UNCHANGED <<cpc, trResultCh, trErrCh>>
       ELSE IF ret'.err = "EOF"
       THEN /\ trResultCh' = Append(trResultCh, fullText)
            /\ cpc' = "done"
            /\ UNCHANGED <<fullText, trErrCh>>
       ELSE /\ trErrCh' = Append(trErrCh, "failed to receive result")
            /\ cpc' = "done"
            /\ UNCHANGED <<fullText, trResultCh>>
    /\ UNCHANGED <<trFrame, closed, doneCh, connClosed, wire, readerVars,
                   ctxDone, closeReturned, panicked, finals, tpc, tret>>

NextYandexTranscribe ==
    \/ YandexTranscribeSend
    \/ YandexTranscribeAudioEnd
    \/ YandexTranscribeClose
    \/ YandexTranscribeWait
    \/ YandexTranscribeDeferClose
    \/ YandexTranscribeCollect
    \/ TranscribeCancelCtx
    \/ YandexSTTReader

SpecYandexTranscribe == Init /\ [][NextYandexTranscribe]_vars

\* ---------------------------------------------------------------------------
\* Supabase client: the source cache (package supabase)
\* ---------------------------------------------------------------------------
\* the clock stops at MaxTime; a cache entry lives CacheTTL ticks
MaxTime == 3
CacheTTL == 2

\* rows of the sources table; enabled is the nullable column
SourceRows ==
    << [id |-> "i1", public_token |-> "t1", enabled |-> "true"],
       [id |-> "i2", public_token |-> "t2", enabled |-> "false"],
       [id |-> "i3", public_token |-> "t3", enabled |-> "null"] >>

Sources == 1..Len(SourceRows)
Tokens == {"t1", "t2", "t3", "tx"}
SourceIDs == {"i1", "i2", "i3", "ix"}
HTTPOutcomes == {"ok", "failed"}

\* the rows a query returns
RowsByToken(token) == {r \in Sources : SourceRows[r].public_token = token}
RowsByID(id) == {r \in Sources : SourceRows[r].id = id}

\* convertToDomain, lines 340-360: a null enabled column counts as enabled
convertToDomain(r) ==
    [row |-> r, ID |-> SourceRows[r].id, PublicToken |-> SourceRows[r].public_token,
     Enabled |-> (SourceRows[r].enabled # "false")]

\* SourceConfig.IsEnabled
IsEnabled(source) == source.Enabled

\* getFromCache, lines 267-291: the row cached under the key, Nil when there is
\* no entry or the entry has expired
getFromCache(keyType, key) ==
    LET m == IF keyType = "token" THEN byToken ELSE byID
    IN IF key \notin DOMAIN m THEN Nil
       ELSE IF now > m[key].expiresAt THEN Nil
       ELSE m[key].source.row

\* addToCache, lines 294-312
addToCache(source) ==
    LET entry == [source |-> source, expiresAt |-> now + CacheTTL]
    IN /\ byToken' = IF source.PublicToken # ""
                     THEN MapPut(byToken, source.PublicToken, entry) ELSE byToken
       /\ byID' = IF source.ID # "" THEN MapPut(byID, source.ID, entry) ELSE byID

supaFrame == <<regVars, infoVars, facVars, mmVars, sttVars, trVars, discVars, reloadVars, streamVars, volVars, lockVars, ytVars>>

SupaRet(step, key, row, err, at) ==
    [Ret(step, key, "", row, err) EXCEPT !.at = at]

\* ValidateToken, lines 86-140; http is the outcome of the query
ValidateToken(publicToken, http) ==
    /\ IF getFromCache("token", publicToken) # Nil
       THEN /\ ret' = SupaRet("ValidateToken", publicToken,
                              getFromCache("token", publicToken), "nil", "cache")
            /\ UNCHANGED <<byToken, byID>>
       ELSE IF http = "failed"
       THEN /\ ret' = SupaRet("ValidateToken", publicToken, Nil,
                              "failed to query supabase", "http")
            /\ UNCHANGED <<byToken, byID>>
       ELSE IF RowsByToken(publicToken) = {}
       THEN /\ ret' = SupaRet("ValidateToken", publicToken, Nil,
                              "source not found", "http")
            /\ UNCHANGED <<byToken, byID>>
       ELSE \E r \in RowsByToken(publicToken) :
              IF ~IsEnabled(convertToDomain(r))
              THEN /\ ret' = SupaRet("ValidateToken", publicToken, Nil,
                                     "source is disabled", "http")
                   /\ UNCHANGED <<byToken, byID>>
              ELSE /\ addToCache(convertToDomain(r))
                   /\ ret' = SupaRet("ValidateToken", publicToken, r, "nil", "http")
    /\ UNCHANGED <<supaFrame, now>>

\* GetSourceByID, lines 143-192
GetSourceByID(sourceID, http) ==
    /\ IF getFromCache("id", sourceID) # Nil
       THEN /\ ret' = SupaRet("GetSourceByID", sourceID,
                              getFromCache("id", sourceID), "nil", "cache")
            /\ UNCHANGED <<byToken, byID>>
       ELSE IF http = "failed"
       THEN /\ ret' = SupaRet("GetSourceByID", sourceID, Nil,
                              "failed to query supabase", "http")
            /\ UNCHANGED <<byToken, byID>>
       ELSE IF RowsByID(sourceID) = {}
       THEN /\ ret' = SupaRet("GetSourceByID", sourceID, Nil,
                              "source not found", "http")
            /\ UNCHANGED <<byToken, byID>>
       ELSE \E r \in RowsByID(sourceID) :
              /\ addToCache(convertToDomain(r))
              /\ ret' = SupaRet("GetSourceByID", sourceID, r, "nil", "http")
    /\ UNCHANGED <<supaFrame, now>>

\* Client.ClearCache, lines 315-321
SupabaseClearCache ==
    /\ byToken' = EmptyMap
    /\ byID' = EmptyMap
    /\ ret' = SupaRet("ClearCache", "", Nil, "nil", "")
    /\ UNCHANGED <<supaFrame, now>>

\* time passes
Tick ==
    /\ now < MaxTime
    /\ now' = now + 1
    /\ ret' = SupaRet("Tick", "", Nil, "nil", "")
    /\ UNCHANGED <<supaFrame, byToken, byID>>

NextSupabase ==
    \/ \E t \in Tokens, http \in HTTPOutcomes : ValidateToken(t, http)
    \/ \E id \in SourceIDs, http \in HTTPOutcomes : GetSourceByID(id, http)
    \/ SupabaseClearCache
    \/ Tick

SpecSupabase == Init /\ [][NextSupabase]_vars

\* ---------------------------------------------------------------------------
\* pluginRegistry.DiscoverAndRegister (package registry, plugin discovery)
\* ---------------------------------------------------------------------------
\* the provider instance each plugin's Initialize constructs when it succeeds:
\* pa a valid provider named "a", pb a valid provider named "b", pc a provider
\* that declares a capability the registry does not accept
PluginProvider(name) ==
    CASE name = "pa" -> 1
      [] name = "pb" -> 3
      [] name = "pc" -> 7

\* providers registered by other callers before the discovery pass
PriorProvs == {2, 4}

discFrame == <<facVars, mmVars, sttVars, trVars, supaVars, reloadVars, streamVars, volVars, lockVars, ytVars>>

\* RegisterPlugin, lines 63-88, for a plugin with a name and capabilities
RegisterPlugin(name) ==
    /\ IF name \in plugins
       THEN /\ ret' = Ret("RegisterPlugin", name, "", Nil, "already registered")
            /\ UNCHANGED plugins
       ELSE /\ plugins' = plugins \cup {name}
            /\ ret' = Ret("RegisterPlugin", name, "", Nil, "nil")
    /\ UNCHANGED <<dpc, dconfigs, dcopy, dpending, dname, dinit, dprov, dclose, derrors, dret>>
    /\ UNCHANGED <<regVars, infoVars, discFrame>>

\* DiscoverAndRegister, lines 135-143: the snapshot of pr.plugins
DiscoverStart(configs) ==
    /\ dpc = "idle"
    /\ dpc' = "loop"
    /\ dconfigs' = configs
    /\ dcopy' = plugins
    /\ dpending' = plugins
    /\ derrors' = <<>>
    /\ ret' = Ret("DiscoverStart", "", "", Nil, "nil")
    /\ UNCHANGED <<plugins, dname, dinit, dprov, dclose, dret>>
    /\ UNCHANGED <<regVars, infoVars, discFrame>>

\* lines 146-152: an iteration for a plugin without configuration
DiscoverSkip(name) ==
    /\ dpc = "loop"
    /\ name \in dpending
    /\ name \notin dconfigs
    /\ dpending' = dpending \ {name}
    /\ dname' = name
    /\ ret' = Ret("DiscoverSkip", name, "", Nil, "nil")
    /\ UNCHANGED <<plugins, dpc, dconfigs, dcopy, dinit, dprov, dclose, derrors, dret>>
    /\ UNCHANGED <<regVars, infoVars, discFrame>>

\* lines 146-161: an iteration up to the return of plugin.Initialize; initErr
\* is whether Initialize returned an error
DiscoverInitialize(name, initErr) ==
    /\ dpc = "loop"
    /\ name \in dpending
    /\ name \in dconfigs
    /\ dpending' = dpending \ {name}
    /\ dname' = name
    /\ dinit' = [dinit EXCEPT ![name] = @ + 1]
    /\ IF initErr
       THEN /\ derrors' = Append(derrors, <<"failed to initialize plugin", name>>)
            /\ ret' = Ret("DiscoverInitialize", name, "", Nil, "initialize failed")
            /\ UNCHANGED <<dpc, dprov>>
       ELSE /\ dprov' = [dprov EXCEPT ![name] = PluginProvider(name)]
            /\ dpc' = "register"
            /\ ret' = Ret("DiscoverInitialize", name, "", PluginProvider(name), "nil")
            /\ UNCHANGED derrors
    /\ UNCHANGED <<plugins, dconfigs, dcopy, dclose, dret>>
    /\ UNCHANGED <<regVars, infoVars, discFrame>>

DiscoverRegister_noClose ==
    /\ dpc = "register"
    /\ RegisterBody(dprov[dname])
    /\ IF ret'.err # "nil"
       THEN /\ derrors' = Append(derrors, <<"failed to register provider", dname>>)
            /\ UNCHANGED dclose
       ELSE UNCHANGED <<derrors, dclose>>
    /\ dpc' = "loop"
    /\ UNCHANGED <<plugins, dconfigs, dcopy, dpending, dname, dinit, dprov, dret>>
    /\ UNCHANGED discFrame

\* lines 164-171: providerRegistry.Register(provider) and, when it fails, the
\* error appended and provider.Close()
DiscoverRegister ==
    /\ dpc = "register"
    /\ RegisterBody(dprov[dname])
    /\ IF ret'.err # "nil"
       THEN /\ derrors' = Append(derrors, <<"failed to register provider", dname>>)
            /\ dclose' = [dclose EXCEPT ![dname] = @ + 1]
       ELSE UNCHANGED <<derrors, dclose>>
    /\ dpc' = "loop"
    /\ UNCHANGED <<plugins, dconfigs, dcopy, dpending, dname, dinit, dprov, dret>>
    /\ UNCHANGED discFrame

\* lines 174-179
DiscoverReturn ==
    /\ dpc = "loop"
    /\ dpending = {}
    /\ dpc' = "returned"
    /\ dret' = IF Len(derrors) > 0
               THEN [err |-> "plugin discovery encountered errors",
                     count |-> Len(derrors)]
               ELSE [err |-> "nil", count |-> 0]
    /\ ret' = Ret("DiscoverAndRegister", "", "", Nil, dret'.err)
    /\ UNCHANGED <<plugins, dconfigs, dcopy, dpending, dname, dinit, dprov, dclose, derrors>>
    /\ UNCHANGED <<regVars, infoVars, discFrame>>

\* One DiscoverAndRegister call on a registry other callers filled before it
NextDiscovery ==
    \/ \E n \in PluginNames : RegisterPlugin(n)
    \/ dpc = "idle" /\ \E p \in PriorProvs : Register(p)
    \/ dpc = "idle" /\ \E n \in Names, closeErr \in BOOLEAN : Unregister(n, closeErr)
    \/ \E configs \in SUBSET PluginNames : DiscoverStart(configs)
    \/ \E n \in PluginNames : DiscoverSkip(n)
    \/ \E n \in PluginNames, initErr \in BOOLEAN : DiscoverInitialize(n, initErr)
    \/ DiscoverRegister
    \/ DiscoverReturn

SpecDiscovery == Init /\ [][NextDiscovery]_vars

\* ---------------------------------------------------------------------------
\* ProviderDiscovery.ReloadProvider (package registry, plugin discovery)
\* ---------------------------------------------------------------------------
\* The plugins carry the name of the provider they construct, as
\* ReloadProvider and GetProviderMetadata take it: the name passed to
\* GetPlugin is the one passed to Unregister and GetProviderInfo.
\* the instances plugin `name` can construct
ReloadFresh(name) ==
    CASE name = "a" -> {2, 8}
      [] name = "b" -> {4}

\* the instances other callers register
ReloadPrior == {1, 3}

reloadFrame == <<facVars, mmVars, sttVars, trVars, supaVars, streamVars, volVars, lockVars, ytVars>>
discRest == <<dpc, dconfigs, dcopy, dpending, dname, dinit, dprov, dclose, derrors, dret>>

\* ReloadProvider, lines 203-210: GetPlugin, then Unregister with its result
\* dropped; closeErr is what the old provider's Close() returns
ReloadUnregister(name, closeErr) ==
    /\ lpc = "idle"
    /\ lname' = name
    /\ IF name \notin plugins
       THEN /\ lpc' = "returned"
            /\ lret' = "plugin not found"
            /\ ret' = Ret("ReloadProvider", name, "", Nil, "plugin not found")
            /\ UNCHANGED <<regVars, infoVars>>
       ELSE /\ UnregisterBody(name, closeErr)
            /\ lpc' = "init"
            /\ UNCHANGED lret
    /\ UNCHANGED <<lfresh, lclose, plugins, discRest, reloadFrame>>

\* lines 213-216: plugin.Initialize; initErr is whether it failed
ReloadInitialize(p, initErr) ==
    /\ lpc = "init"
    /\ p \in ReloadFresh(lname)
    /\ IF initErr
       THEN /\ lpc' = "returned"
            /\ lret' = "failed to initialize provider"
            /\ ret' = Ret("ReloadProvider", lname, "", Nil, "failed to initialize provider")
            /\ UNCHANGED lfresh
       ELSE /\ lpc' = "register"
            /\ lfresh' = p
            /\ ret' = Ret("ReloadInitialize", lname, "", p, "nil")
            /\ UNCHANGED lret
    /\ UNCHANGED <<lname, lclose, plugins, discRest, regVars, infoVars, reloadFrame>>

ReloadRegister_noClose ==
    /\ lpc = "register"
    /\ RegisterBody(lfresh)
    /\ lret' = IF ret'.err # "nil" THEN "failed to register provider" ELSE "nil"
    /\ lpc' = "returned"
    /\ UNCHANGED <<lname, lfresh, lclose, plugins, discRest, reloadFrame>>

\* lines 219-224: Register and, when it fails, Close on the new provider
ReloadRegister ==
    /\ lpc = "register"
    /\ RegisterBody(lfresh)
    /\ IF ret'.err # "nil"
       THEN /\ lclose' = lclose + 1
            /\ lret' = "failed to register provider"
       ELSE /\ lret' = "nil"
            /\ UNCHANGED lclose
    /\ lpc' = "returned"
    /\ UNCHANGED <<lname, lfresh, plugins, discRest, reloadFrame>>

\* One ReloadProvider call next to other callers of the registries
NextReload ==
    \/ \E n \in Names : RegisterPlugin(n)
    \/ \E p \in ReloadPrior : Register(p)
    \/ \E n \in Names, closeErr \in BOOLEAN : Unregister(n, closeErr)
    \/ \E n \in Names, closeErr \in BOOLEAN : ReloadUnregister(n, closeErr)
    \/ \E p \in Provs, initErr \in BOOLEAN : ReloadInitialize(p, initErr)
    \/ ReloadRegister

SpecReload == Init /\ [][NextReload]_vars

\* One ReloadProvider call next to a HealthCheck of the registry
NextReloadHealth ==
    \/ \E n \in Names : RegisterPlugin(n)
    \/ \E p \in ReloadPrior : Register(p)
    \/ \E n \in Names, closeErr \in BOOLEAN : ReloadUnregister(n, closeErr)
    \/ \E p \in Provs, initErr \in BOOLEAN : ReloadInitialize(p, initErr)
    \/ ReloadRegister
    \/ HealthCheckSnapshot
    \/ \E n \in Names, p \in Provs, probeErr \in BOOLEAN : HealthCheckProbe(n, p, probeErr)

SpecReloadHealth == Init /\ [][NextReloadHealth]_vars

\* ---------------------------------------------------------------------------
\* OpenAICompatibleProvider.StreamChatCompletion (producer goroutine and caller)
\* ---------------------------------------------------------------------------
MaxDeltas == 11
ContentChanCap == 10

streamFrame == <<regVars, infoVars, facVars, mmVars, sttVars, trVars, supaVars,
                 discVars, reloadVars, volVars, lockVars, ytVars>>

\* lines 398-401: initialized is p.initialized
ProducerStart(initialized) ==
    /\ spc = "start"
    /\ IF initialized
       THEN /\ spc' = "create"
            /\ UNCHANGED <<errChan, sent>>
       ELSE /\ errChan' = Append(errChan, "provider not initialized")
            /\ sent' = sent + 1
            /\ spc' = "defer"
    /\ ret' = StreamRet("Producer", "nil", 0, FALSE)
    /\ UNCHANGED <<contentChan, chansClosed, srecv, sctx, readerStopped, streamFrame>>

\* lines 442-447: CreateChatCompletionStream; failed is whether it returned an
\* error, which it does when ctx is already cancelled
ProducerCreateStream(failed) ==
    /\ spc = "create"
    /\ sctx => failed
    /\ IF failed
       THEN /\ errChan' = Append(errChan, "failed to create stream")
            /\ sent' = sent + 1
            /\ spc' = "defer"
       ELSE /\ spc' = "recv"
            /\ UNCHANGED <<errChan, sent>>
    /\ ret' = StreamRet("Producer", "nil", 0, FALSE)
    /\ UNCHANGED <<contentChan, chansClosed, srecv, sctx, readerStopped, streamFrame>>

\* lines 450-464, up to the send: stream.Recv() returns a delta with content,
\* a response without content, io.EOF or another error; once ctx is cancelled
\* it returns an error
ProducerRecv(outcome) ==
    /\ spc = "recv"
    /\ sctx => outcome = "error"
    /\ outcome = "delta" => srecv < MaxDeltas
    /\ CASE outcome = "delta" -> /\ srecv' = srecv + 1
                                 /\ spc' = "send"
                                 /\ UNCHANGED <<errChan, sent>>
         [] outcome = "empty" -> UNCHANGED <<srecv, spc, errChan, sent>>
         [] outcome = "EOF"   -> /\ spc' = "defer"
                                 /\ UNCHANGED <<srecv, errChan, sent>>
         [] outcome = "error" -> /\ errChan' = Append(errChan, "stream error")
                                 /\ sent' = sent + 1
                                 /\ spc' = "defer"
                                 /\ UNCHANGED srecv
    /\ ret' = StreamRet("Producer", "nil", 0, FALSE)
    /\ UNCHANGED <<contentChan, chansClosed, sctx, readerStopped, streamFrame>>

\* line 462: contentChan <- content blocks while the buffer is full
ProducerSend ==
    /\ spc = "send"
    /\ Len(contentChan) < ContentChanCap
    /\ contentChan' = Append(contentChan, srecv)
    /\ spc' = "recv"
    /\ ret' = StreamRet("Producer", "nil", srecv, FALSE)
    /\ UNCHANGED <<errChan, chansClosed, sent, srecv, sctx, readerStopped, streamFrame>>

\* lines 395-396 and 447: the deferred stream.Close() and the two closes
ProducerDefer ==
    /\ spc = "defer"
    /\ chansClosed' = TRUE
    /\ spc' = "exited"
    /\ ret' = StreamRet("Producer", "nil", 0, FALSE)
    /\ UNCHANGED <<contentChan, errChan, sent, srecv, sctx, readerStopped, streamFrame>>

\* the caller takes a delta from the content channel
CallerReadContent ==
    /\ ~readerStopped
    /\ Len(contentChan) > 0
    /\ contentChan' = Tail(contentChan)
    /\ ret' = StreamRet("ReadContent", "nil", Head(contentChan), FALSE)
    /\ UNCHANGED <<spc, errChan, chansClosed, sent, srecv, sctx, readerStopped, streamFrame>>

\* the caller takes the error from the error channel
CallerReadError ==
    /\ Len(errChan) > 0
    /\ errChan' = Tail(errChan)
    /\ ret' = StreamRet("ReadError", Head(errChan), 0, FALSE)
    /\ UNCHANGED <<spc, contentChan, chansClosed, sent, srecv, sctx, readerStopped, streamFrame>>

\* the caller stops reading the content channel
CallerStops ==
    /\ ~readerStopped
    /\ readerStopped' = TRUE
    /\ ret' = StreamRet("CallerStops", "nil", 0, FALSE)
    /\ UNCHANGED <<spc, contentChan, errChan, chansClosed, sent, srecv, sctx, streamFrame>>

\* ctx is cancelled
StreamCancelCtx ==
    /\ ~sctx
    /\ sctx' = TRUE
    /\ ret' = StreamRet("CancelCtx", "nil", 0, FALSE)
    /\ UNCHANGED <<spc, contentChan, errChan, chansClosed, sent, srecv, readerStopped, streamFrame>>

NextStream ==
    \/ \E initialized \in BOOLEAN : ProducerStart(initialized)
    \/ \E failed \in BOOLEAN : ProducerCreateStream(failed)
    \/ \E outcome \in {"delta", "empty", "EOF", "error"} : ProducerRecv(outcome)
    \/ ProducerSend
    \/ ProducerDefer
    \/ CallerReadContent
    \/ CallerReadError
    \/ CallerStops
    \/ StreamCancelCtx

SpecStream == Init /\ [][NextStream]_vars

\* ---------------------------------------------------------------------------
\* Yandex TTS volume (yandex/tts.go).  Volumes are float64 in the code; the
\* model counts in tenths, so -19.0 is -190, -145 is -1450, 0.7 is 7 and 1.0 is
\* 10.  The code compares a volume only with 0, -145 and 1.
\* ---------------------------------------------------------------------------
MaxLoudness == 1500    \* requested volumes go down to -150.0
MaxPeak == 30          \* and up to 3.0

Volumes == (0 - MaxLoudness)..MaxPeak
Normalizations == {"", "lufs", "max_peak", "peak"}

DefaultVolume_keep(v) == v

\* NewTTSClient, lines 63-66, and Synthesize, lines 110-113
DefaultVolume(v) == IF v = 0 THEN -190 ELSE v

\* buildSynthesisOptions, lines 529-554, and the two buildUtteranceRequest,
\* lines 310-339 and 631-660
AdjustVolume(v, normType) ==
    IF normType # "max_peak"
    THEN LET a == IF v > 0 THEN -190 ELSE v
         IN  IF a < -1450 THEN -1450 ELSE a
    ELSE LET a == IF v <= 0 THEN 7 ELSE v
         IN  IF a > 10 THEN 10 ELSE a

volFrame == <<regVars, infoVars, facVars, mmVars, sttVars, trVars, supaVars,
              discVars, reloadVars, streamVars, lockVars, ytVars>>

\* NewTTSClient, lines 42-88
NewTTSClient(v, normType) ==
    /\ vpc = "idle"
    /\ vpc' = "client"
    /\ reqVolume' = v
    /\ cfgVolume' = DefaultVolume(v)
    /\ cfgNorm' = normType
    /\ ret' = StreamRet("NewTTSClient", "nil", 0, FALSE)
    /\ UNCHANGED <<wireVolume, volFrame>>

\* yandexTTSClient.buildSynthesisOptions, lines 514-574: the first message of
\* the stream
BuildSynthesisOptions ==
    /\ vpc = "client"
    /\ vpc' = "emitted"
    /\ wireVolume' = AdjustVolume(cfgVolume, cfgNorm)
    /\ ret' = StreamRet("buildSynthesisOptions", "nil", 0, TRUE)
    /\ UNCHANGED <<reqVolume, cfgVolume, cfgNorm, volFrame>>

\* yandexTTSClient.buildUtteranceRequest, lines 577-687
ClientUtteranceRequest ==
    /\ vpc = "client"
    /\ vpc' = "emitted"
    /\ wireVolume' = AdjustVolume(cfgVolume, cfgNorm)
    /\ ret' = StreamRet("buildUtteranceRequest", "nil", 0, TRUE)
    /\ UNCHANGED <<reqVolume, cfgVolume, cfgNorm, volFrame>>

\* Synthesize, lines 92-144, with YandexTTSService.buildUtteranceRequest,
\* lines 256-355
Synthesize(v, normType) ==
    /\ vpc = "idle"
    /\ vpc' = "emitted"
    /\ reqVolume' = v
    /\ cfgVolume' = DefaultVolume(v)
    /\ cfgNorm' = normType
    /\ wireVolume' = AdjustVolume(DefaultVolume(v), normType)
    /\ ret' = StreamRet("Synthesize", "nil", 0, TRUE)
    /\ UNCHANGED volFrame

NextVolume ==
    \/ \E v \in Volumes, n \in Normalizations : NewTTSClient(v, n)
    \/ BuildSynthesisOptions
    \/ ClientUtteranceRequest
    \/ \E v \in Volumes, n \in Normalizations : Synthesize(v, n)

SpecVolume == Init /\ [][NextVolume]_vars

\* ---------------------------------------------------------------------------
\* Registry: r.mu (registry.go).  The registry calls run as steps of
\* goroutines: taking and releasing r.mu and entering and leaving a provider
\* method are steps of their own; the maps change in the step that ends the
\* critical section.
\* ---------------------------------------------------------------------------
LockProvs == {1, 4, 7}
LockCaps  == {"stt", "tts"}

lockFrame == <<facVars, mmVars, sttVars, trVars, supaVars, discVars, reloadVars,
               streamVars, volVars, ytVars>>

MuFree == muWriter = 0 /\ muReaders = {}

Goto(g, pc, method) ==
    /\ gpc' = [gpc EXCEPT ![g] = pc]
    /\ inMethod' = [inMethod EXCEPT ![g] = method]

Done(g) ==
    /\ Goto(g, "idle", "none")
    /\ garg' = [garg EXCEPT ![g] = NoArg]

\* a step inside a call that changes no map of the registry
InCall(a, step) ==
    /\ ret' = Ret(step, a.name, a.cap, a.p, "nil")
    /\ UNCHANGED <<regVars, infoVars, hcProbing, lockFrame>>

\* Register, lines 78-80: provider.Name() and provider.Capabilities() are
\* called before r.mu is taken
LockRegisterCall(g, p) ==
    /\ gpc[g] = "idle"
    /\ Goto(g, "Register.Capabilities", "Capabilities")
    /\ garg' = [garg EXCEPT ![g] = [name |-> ProvName(p), cap |-> "", p |-> p]]
    /\ InCall([name |-> ProvName(p), cap |-> "", p |-> p], "Register.Capabilities")
    /\ UNCHANGED <<muWriter, muReaders>>

RegisterValid(p) ==
    ProvName(p) # "" /\ Len(ProvCaps(p)) > 0 /\ validateCapabilities(ProvCaps(p))

\* Register, lines 81-89: the validation fails and Register returns without
\* taking r.mu
LockRegisterInvalid(g) ==
    /\ gpc[g] = "Register.Capabilities"
    /\ ~RegisterValid(garg[g].p)
    /\ RegisterBody(garg[g].p)
    /\ Done(g)
    /\ UNCHANGED <<muWriter, muReaders, hcProbing, lockFrame>>

\* Register, line 93: r.mu.Lock()
LockRegisterLock(g) ==
    /\ gpc[g] = "Register.Capabilities"
    /\ RegisterValid(garg[g].p)
    /\ MuFree
    /\ muWriter' = g
    /\ Goto(g, "Register.locked", "none")
    /\ InCall(garg[g], "Register.Lock")
    /\ UNCHANGED <<muReaders, garg>>

\* Register, lines 94-120, and the deferred r.mu.Unlock()
LockRegisterReturn(g) ==
    /\ gpc[g] = "Register.locked"
    /\ RegisterBody(garg[g].p)
    /\ muWriter' = 0
    /\ Done(g)
    /\ UNCHANGED <<muReaders, hcProbing, lockFrame>>

\* Get, line 124: r.mu.RLock()
LockGetLock(g, name, capability) ==
    /\ gpc[g] = "idle"
    /\ muWriter = 0
    /\ muReaders' = muReaders \cup {g}
    /\ Goto(g, "Get.rlocked", "none")
    /\ garg' = [garg EXCEPT ![g] = [name |-> name, cap |-> capability, p |-> Nil]]
    /\ InCall([name |-> name, cap |-> capability, p |-> Nil], "Get.RLock")
    /\ UNCHANGED muWriter

\* Get, line 133, and hasCapability, line 322: provider.Capabilities()
LockGetHasCapability(g) ==
    /\ gpc[g] = "Get.rlocked"
    /\ garg[g].name \in DOMAIN providers
    /\ Goto(g, "Get.Capabilities", "Capabilities")
    /\ InCall(garg[g], "Get.Capabilities")
    /\ UNCHANGED <<muWriter, muReaders, garg>>

\* Get, lines 127-145, and the deferred r.mu.RUnlock()
LockGetReturn(g) ==
    /\ \/ gpc[g] = "Get.rlocked" /\ garg[g].name \notin DOMAIN providers
       \/ gpc[g] = "Get.Capabilities"
    /\ ret' = Ret("Get", garg[g].name, garg[g].cap,
                  Get(garg[g].name, garg[g].cap)[1], Get(garg[g].name, garg[g].cap)[2])
    /\ muReaders' = muReaders \ {g}
    /\ Done(g)
    /\ UNCHANGED <<regVars, infoVars, muWriter, hcProbing, lockFrame>>

\* Unregister, line 169: r.mu.Lock()
LockUnregisterLock(g, name) ==
    /\ gpc[g] = "idle"
    /\ MuFree
    /\ muWriter' = g
    /\ Goto(g, "Unregister.locked", "none")
    /\ garg' = [garg EXCEPT ![g] = [name |-> name, cap |-> "", p |-> Nil]]
    /\ InCall([name |-> name, cap |-> "", p |-> Nil], "Unregister.Lock")
    /\ UNCHANGED muReaders

\* Unregister, line 178: provider.Close()
LockUnregisterClose(g) ==
    /\ gpc[g] = "Unregister.locked"
    /\ garg[g].name \in DOMAIN providers
    /\ Goto(g, "Unregister.Close", "Close")
    /\ InCall(garg[g], "Unregister.Close")
    /\ UNCHANGED <<muWriter, muReaders, garg>>

\* Unregister, line 183: Close returned nil, provider.Capabilities()
LockUnregisterCapabilities(g) ==
    /\ gpc[g] = "Unregister.Close"
    /\ Goto(g, "Unregister.Capabilities", "Capabilities")
    /\ InCall(garg[g], "Unregister.Capabilities")
    /\ UNCHANGED <<muWriter, muReaders, garg>>

\* Unregister, lines 172-175, 178-180 and 184-194, and the deferred
\* r.mu.Unlock(): the provider is missing, Close failed, or the entry is removed
LockUnregisterReturn(g) ==
    /\ \/ /\ gpc[g] = "Unregister.locked"
          /\ garg[g].name \notin DOMAIN providers
          /\ UnregisterBody(garg[g].name, FALSE)
       \/ /\ gpc[g] = "Unregister.Close"
          /\ UnregisterBody(garg[g].name, TRUE)
       \/ /\ gpc[g] = "Unregister.Capabilities"
          /\ UnregisterBody(garg[g].name, FALSE)
    /\ muWriter' = 0
    /\ Done(g)
    /\ UNCHANGED <<muReaders, hcProbing, lockFrame>>

\* HealthCheck, lines 227-232: RLock, copy of r.providers, RUnlock
LockHealthCheckSnapshot ==
    /\ muWriter = 0
    /\ hcProbing = {}
    /\ HealthCheckSnapshotBody
    /\ UNCHANGED <<lockVars, lockFrame>>

\* HealthCheck, line 243: a probe goroutine enters p.HealthCheck(ctx)
LockHealthCheckProbe(n, p) ==
    /\ <<n, p>> \in hcPending \ hcProbing
    /\ hcProbing' = hcProbing \cup {<<n, p>>}
    /\ ret' = Ret("HealthCheck.HealthCheck", n, "", p, "nil")
    /\ UNCHANGED <<regVars, infoVars, muWriter, muReaders, gpc, garg, inMethod,
                   lockFrame>>

\* HealthCheck, lines 245-264: the probe returned; results and, under
\* r.mu.Lock(), the health maps are updated
LockHealthCheckUpdate(n, p, probeErr) ==
    /\ <<n, p>> \in hcProbing
    /\ MuFree
    /\ HealthCheckProbeBody(n, p, probeErr)
    /\ hcProbing' = hcProbing \ {<<n, p>>}
    /\ UNCHANGED <<muWriter, muReaders, gpc, garg, inMethod, lockFrame>>

NextLock ==
    \/ \E g \in Goroutines, p \in LockProvs : LockRegisterCall(g, p)
    \/ \E g \in Goroutines : LockRegisterInvalid(g)
    \/ \E g \in Goroutines : LockRegisterLock(g)
    \/ \E g \in Goroutines : LockRegisterReturn(g)
    \/ \E g \in Goroutines, n \in Names, c \in LockCaps : LockGetLock(g, n, c)
    \/ \E g \in Goroutines : LockGetHasCapability(g)
    \/ \E g \in Goroutines : LockGetReturn(g)
    \/ \E g \in Goroutines, n \in Names : LockUnregisterLock(g, n)
    \/ \E g \in Goroutines : LockUnregisterClose(g)
    \/ \E g \in Goroutines : LockUnregisterCapabilities(g)
    \/ \E g \in Goroutines : LockUnregisterReturn(g)
    \/ LockHealthCheckSnapshot
    \/ \E n \in Names, p \in LockProvs : LockHealthCheckProbe(n, p)
    \/ \E n \in Names, p \in LockProvs, e \in BOOLEAN : LockHealthCheckUpdate(n, p, e)

SpecLock == Init /\ [][NextLock]_vars

\* ---------------------------------------------------------------------------
\* Yandex TTS streaming client (yandex/tts.go, yandexTTSClient).  Two
\* goroutines call Send and Close; receiveAudio is the goroutine initStream
\* starts.  A goroutine is inside a transport write from the step that starts
\* the write to the step that ends it.
\* ---------------------------------------------------------------------------
\* NewTTSClient, line 80: make(chan []byte, 100)
YandexAudioChCap == 100

ytFrame == <<regVars, infoVars, facVars, mmVars, sttVars, trVars, supaVars,
             discVars, reloadVars, streamVars, volVars, lockVars>>

YGoto(g, pc) == ypc' = [ypc EXCEPT ![g] = pc]

\* Send, lines 384-397: c.mu.Lock(), the closed check and, with a stream
\* already there, c.mu.Unlock(); an empty text returns nil at 399-401
YandexSend(g, text) ==
    /\ ypc[g] = "idle" /\ ymu = 0 /\ ypanic = ""
    /\ IF yclosed
       THEN /\ ret' = StreamRet("Send", "TTS client is closed", 0, FALSE)
            /\ UNCHANGED <<ymu, ypc>>
       ELSE IF ystream = "nil"
       THEN /\ ymu' = g
            /\ YGoto(g, IF text = "" THEN "Send.initEmpty" ELSE "Send.init")
            /\ ret' = StreamRet("Send.initStream", "nil", 0, TRUE)
       ELSE IF text = ""
       THEN /\ ret' = StreamRet("Send", "nil", 0, FALSE)
            /\ UNCHANGED <<ymu, ypc>>
       ELSE /\ YGoto(g, "Send.write")
            /\ ret' = StreamRet("Send.write", "nil", 0, TRUE)
            /\ UNCHANGED ymu
    /\ UNCHANGED <<yclosed, ystream, ystarted, ycons, yaudio, yerr, yaudioClosed,
                   ydoneClosed, ypanic, ytFrame>>

\* initStream, lines 425-466, run by Send under c.mu; then Send, lines 397-402.
\* outcome: StreamSynthesis failed, the options write failed, or both worked
\* and the receiver goroutine is started
YandexInitStream(g, outcome) ==
    /\ ypc[g] \in {"Send.init", "Send.initEmpty"} /\ ypanic = ""
    /\ ymu' = 0
    /\ ystream' = IF outcome = "createFail" THEN "nil" ELSE "open"
    /\ ystarted' = IF outcome = "ok" THEN ystarted + 1 ELSE ystarted
    /\ ycons' = IF outcome = "ok" THEN "recv" ELSE ycons
    /\ IF outcome # "ok"
       THEN /\ YGoto(g, "idle")
            /\ ret' = StreamRet("Send", "failed to initialize stream", 0, FALSE)
       ELSE IF ypc[g] = "Send.initEmpty"
       THEN /\ YGoto(g, "idle")
            /\ ret' = StreamRet("Send", "nil", 0, FALSE)
       ELSE /\ YGoto(g, "Send.write")
            /\ ret' = StreamRet("Send.write", "nil", 0, TRUE)
    /\ UNCHANGED <<yclosed, yaudio, yerr, yaudioClosed, ydoneClosed, ypanic, ytFrame>>

\* Send, lines 417-421: c.stream.Send(req) returns
YandexSendWritten(g, ok) ==
    /\ ypc[g] = "Send.write" /\ ypanic = ""
    /\ YGoto(g, "idle")
    /\ ret' = StreamRet("Send", IF ok THEN "nil" ELSE "failed to send text", 0, FALSE)
    /\ UNCHANGED <<ymu, yclosed, ystream, ystarted, ycons, yaudio, yerr, yaudioClosed,
                   ydoneClosed, ypanic, ytFrame>>

\* Close, lines 706-722: the closed flag under c.mu, then c.stream.CloseSend()
YandexClose(g) ==
    /\ ypc[g] = "idle" /\ ymu = 0 /\ ypanic = ""
    /\ IF yclosed
       THEN /\ ret' = StreamRet("Close", "nil", 0, FALSE)
            /\ UNCHANGED <<yclosed, ypc>>
       ELSE /\ yclosed' = TRUE
            /\ YGoto(g, IF ystream = "nil" THEN "Close.wait" ELSE "Close.CloseSend")
            /\ ret' = StreamRet("Close.closed", "nil", 0, ystream # "nil")
    /\ UNCHANGED <<ymu, ystream, ystarted, ycons, yaudio, yerr, yaudioClosed,
                   ydoneClosed, ypanic, ytFrame>>

\* Close, lines 716-722: CloseSend returns
YandexCloseSent(g) ==
    /\ ypc[g] = "Close.CloseSend" /\ ypanic = ""
    /\ YGoto(g, "Close.wait")
    /\ ret' = StreamRet("Close.CloseSend", "nil", 0, FALSE)
    /\ UNCHANGED <<ymu, yclosed, ystream, ystarted, ycons, yaudio, yerr, yaudioClosed,
                   ydoneClosed, ypanic, ytFrame>>

\* c.wg.Wait() returns: every started receiver has called wg.Done()
WaitGroupDone_noWait == TRUE

WaitGroupDone == ycons \in {"none", "exited"}

\* Close, lines 724-740: c.wg.Wait(), closeOnce.Do(close(c.audioCh)),
\* close(c.doneCh), c.conn.Close()
YandexCloseWait(g) ==
    /\ ypc[g] = "Close.wait" /\ ypanic = ""
    /\ WaitGroupDone
    /\ yaudioClosed' = TRUE
    /\ ydoneClosed' = TRUE
    /\ ypanic' = IF ydoneClosed THEN "close of closed channel" ELSE ypanic
    /\ YGoto(g, "idle")
    /\ ret' = StreamRet("Close", "nil", 0, FALSE)
    /\ UNCHANGED <<ymu, yclosed, ystream, ystarted, ycons, yaudio, yerr, ytFrame>>

\* receiveAudio, lines 476-492: c.stream.Recv() returns
YandexRecv(outcome) ==
    /\ ycons = "recv" /\ ypanic = ""
    /\ ycons' = CASE outcome = "chunk" -> "send"
                  [] outcome = "empty" -> "recv"
                  [] OTHER -> "exited"
    /\ yerr' = IF outcome = "error" /\ yerr < ErrChCap THEN yerr + 1 ELSE yerr
    /\ ret' = StreamRet("receiveAudio.Recv", outcome, 0, FALSE)
    /\ UNCHANGED <<ymu, yclosed, ystream, ypc, ystarted, yaudio, yaudioClosed,
                   ydoneClosed, ypanic, ytFrame>>

\* receiveAudio, lines 502-504: the chunk goes into c.audioCh
YandexForward ==
    /\ ycons = "send" /\ ypanic = ""
    /\ yaudioClosed \/ yaudio < YandexAudioChCap
    /\ IF yaudioClosed
       THEN /\ ypanic' = "send on closed channel"
            /\ UNCHANGED <<yaudio, ycons>>
       ELSE /\ yaudio' = yaudio + 1
            /\ ycons' = "recv"
            /\ UNCHANGED ypanic
    /\ ret' = StreamRet("receiveAudio.send", "nil", 0, FALSE)
    /\ UNCHANGED <<ymu, yclosed, ystream, ypc, ystarted, yerr, yaudioClosed,
                   ydoneClosed, ytFrame>>

\* a receiver that tries the send again after the timeout
YandexSendTimeout_retry ==
    /\ ycons = "send" /\ ypanic = ""
    /\ ~yaudioClosed /\ yaudio = YandexAudioChCap
    /\ ycons' = "send"
    /\ ret' = StreamRet("receiveAudio.timeout", "nil", 0, FALSE)
    /\ UNCHANGED <<ymu, yclosed, ystream, ypc, ystarted, yaudio, yerr, yaudioClosed,
                   ydoneClosed, ypanic, ytFrame>>

\* receiveAudio, lines 505-509: the send stayed blocked for 5 s
YandexSendTimeout ==
    /\ ycons = "send" /\ ypanic = ""
    /\ ~yaudioClosed /\ yaudio = YandexAudioChCap
    /\ ycons' = "exited"
    /\ ret' = StreamRet("receiveAudio.timeout", "nil", 0, FALSE)
    /\ UNCHANGED <<ymu, yclosed, ystream, ypc, ystarted, yaudio, yerr, yaudioClosed,
                   ydoneClosed, ypanic, ytFrame>>

\* Receive, lines 689-703, with a ready channel
YandexReceive ==
    /\ ypanic = ""
    /\ yaudio > 0 \/ yaudioClosed \/ yerr > 0
    /\ \/ /\ yaudio > 0
          /\ yaudio' = yaudio - 1
          /\ ret' = StreamRet("Receive", "nil", 1, FALSE)
          /\ UNCHANGED yerr
       \/ /\ yaudio = 0 /\ yaudioClosed
          /\ ret' = StreamRet("Receive", "EOF", 0, FALSE)
          /\ UNCHANGED <<yaudio, yerr>>
       \/ /\ yerr > 0
          /\ yerr' = yerr - 1
          /\ ret' = StreamRet("Receive", "failed to receive audio", 0, FALSE)
          /\ UNCHANGED yaudio
    /\ UNCHANGED <<ymu, yclosed, ystream, ypc, ystarted, ycons, yaudioClosed,
                   ydoneClosed, ypanic, ytFrame>>

NextYandexTTS ==
    \/ \E g \in Goroutines, text \in {"", "t"} : YandexSend(g, text)
    \/ \E g \in Goroutines, o \in {"createFail", "optionsFail", "ok"} :
          YandexInitStream(g, o)
    \/ \E g \in Goroutines, ok \in BOOLEAN : YandexSendWritten(g, ok)
    \/ \E g \in Goroutines : YandexClose(g)
    \/ \E g \in Goroutines : YandexCloseSent(g)
    \/ \E g \in Goroutines : YandexCloseWait(g)
    \/ \E o \in {"chunk", "empty", "EOF", "error"} : YandexRecv(o)
    \/ YandexForward
    \/ YandexSendTimeout
    \/ YandexReceive

SpecYandexTTS == Init /\ [][NextYandexTTS]_vars

\* The same client when nobody calls Receive.  The 5 s timer of the send
\* fires, CloseSend returns, and wg.Wait() returns once the receiver is gone.
NextYandexTTSUnread ==
    \/ \E g \in Goroutines, text \in {"", "t"} : YandexSend(g, text)
    \/ \E g \in Goroutines, o \in {"createFail", "optionsFail", "ok"} :
          YandexInitStream(g, o)
    \/ \E g \in Goroutines, ok \in BOOLEAN : YandexSendWritten(g, ok)
    \/ \E g \in Goroutines : YandexClose(g)
    \/ \E g \in Goroutines : YandexCloseSent(g)
    \/ \E g \in Goroutines : YandexCloseWait(g)
    \/ \E o \in {"chunk", "empty", "EOF", "error"} : YandexRecv(o)
    \/ YandexForward
    \/ YandexSendTimeout

SpecYandexTTSLive ==
    /\ Init /\ [][NextYandexTTSUnread]_vars
    /\ WF_vars(YandexSendTimeout)
    /\ WF_vars(\E g \in Goroutines : YandexCloseSent(g))
    /\ WF_vars(\E g \in Goroutines : YandexCloseWait(g))

\* ---------------------------------------------------------------------------
\* Claims about the registry
\* ---------------------------------------------------------------------------
RegistryMaps == <<providers, capabilityIndex, providerInfo, healthStatus, lastHealthCheck>>

\* C4: when Unregister(name) of a registered provider returns the error of the
\* provider's Close(), the provider is gone: the name is in none of the five
\* registry maps.
C4_UnregisterCloseErrorRemoves ==
    (ret.step = "Unregister" /\ ret.err = "failed to close provider") =>
        /\ ret.name \notin DOMAIN providers
        /\ \A c \in DOMAIN capabilityIndex : Count(capabilityIndex[c], ret.name) = 0
        /\ ret.name \notin DOMAIN providerInfo
        /\ ret.name \notin DOMAIN healthStatus
        /\ ret.name \notin DOMAIN lastHealthCheck

\* C5: a second GetProviderInfo(n), with no registry operation since the first,
\* returns the value the first read had, whatever the caller did to its copy
\* in between.
C5_InfoCopyIsolation ==
    secondRead # NoRead => secondRead = firstRead

\* C6: every registered provider is listed exactly once by List(c) for every
\* capability c it declares; right after a successful Unregister the provider
\* is in no List(c); the capability index holds no empty list.
C6_CapabilityIndexing ==
    /\ \A n \in DOMAIN providers :
          \A i \in DOMAIN ProvCaps(providers[n]) :
             Count(List(ProvCaps(providers[n])[i]), providers[n]) = 1
    /\ (ret.step = "Unregister" /\ ret.err = "nil") =>
          \A c \in Capability : Count(List(c), ret.p) = 0
    /\ \A c \in DOMAIN capabilityIndex : Len(capabilityIndex[c]) > 0

\* the provider p passes the validation of Register
ValidProvider(p) ==
    /\ p # Nil /\ ProvName(p) # "" /\ Len(ProvCaps(p)) > 0
    /\ validateCapabilities(ProvCaps(p))

\* C7: while a name is registered every Register of a provider with that name
\* fails (with the already-registered error when the provider is otherwise
\* valid) and leaves the five registry maps as they were; of the Register calls
\* for one name since the name was last absent exactly one has succeeded: a
\* valid Register of a free name succeeds and takes the name, and a call that
\* fails as duplicate does so because the name is registered.
C7_RegistryUniqueness ==
    /\ [](\A n \in Names : /\ regOk[n] <= 1
                           /\ (regOk[n] = 1 <=> n \in DOMAIN providers))
    /\ []((ret.step = "Register" /\ ret.err = "already registered") =>
             ret.name \in DOMAIN providers)
    /\ [][(ret'.step = "Register" /\ ret'.p # Nil /\ ret'.name \in DOMAIN providers
           /\ ret' # ret) =>
             /\ ret'.err # "nil"
             /\ (ValidProvider(ret'.p) => ret'.err = "already registered")
             /\ UNCHANGED RegistryMaps]_vars
    /\ [][(ret'.step = "Register" /\ ValidProvider(ret'.p) /\ ret' # ret
           /\ ProvName(ret'.p) \notin DOMAIN providers) =>
             /\ ret'.err = "nil"
             /\ ProvName(ret'.p) \in DOMAIN providers'
             /\ providers'[ProvName(ret'.p)] = ret'.p]_vars

\* a Register was refused because another provider holds the name
C7_Witness ==
    /\ ret.step = "Register" /\ ret.err = "already registered"
    /\ providers[ret.name] # ret.p

\* ---------------------------------------------------------------------------
\* Claims about the factory and the fallback wrapper
\* ---------------------------------------------------------------------------
\* C8: when the primary and the fallback attempt both fail the wrapper returns
\* the primary's error; when the fallback attempt succeeds the wrapper returns
\* the fallback's handle, which is cached under the fallback's name and not
\* under the requested name.
C8_FallbackErrorChoice ==
    /\ (ret.step = "WrapperCreate" /\ ret.stage = "fallback" /\ ret.err # "nil") =>
          ret.errName = ret.name
    /\ (ret.step = "WrapperCreate" /\ ret.stage = "fallback" /\ ret.err = "nil") =>
          /\ ProvName(ret.p) = GetFallbackProvider(ret.cap)
          /\ getCached(CacheKey(ret.cap, GetFallbackProvider(ret.cap))) = ret.p
          /\ getCached(CacheKey(ret.cap, ret.name)) # ret.p

\* C9: (1) a Create<Cap>Service(x) that directly follows a successful
\* Create<Cap>Service(x) returns the same handle, from the cache; (2) a
\* Create<Cap>Service(x) that directly follows ClearCacheForProvider(x) misses
\* the cache; (3) a call that missed the cache and runs undisturbed returns the
\* provider registered under x, and stores it.
C9_CacheCoherence ==
    [][/\ (/\ ret.step = "Create" /\ ret.err = "nil"
           /\ ret'.at = "check" /\ ret'.name = ret.name /\ ret'.cap = ret.cap) =>
             (ret'.step = "Create" /\ ret'.cached /\ ret'.p = ret.p)
       /\ (/\ ret.step = "ClearCacheForProvider"
           /\ ret'.at = "check" /\ ret'.name = ret.name) =>
             ret'.step = "Create:miss"
       /\ (/\ ret.step = "Create:miss" /\ ret'.at = "get" /\ ret'.t = ret.t
           /\ ret'.err = "nil") =>
             (ret'.step = "Create:got" /\ ret'.p = providers[ret'.name])
       /\ (ret.step = "Create:got" /\ ret'.at = "set" /\ ret'.t = ret.t) =>
             /\ ret'.step = "Create" /\ ret'.err = "nil" /\ ~ret'.cached
             /\ ret'.p = providers'[ret'.name]
             /\ CacheKey(ret'.cap, ret'.name) \in DOMAIN cache'
             /\ cache'[CacheKey(ret'.cap, ret'.name)] = ret'.p
      ]_vars

\* a call was served from the cache
C9_Witness ==
    ret.step = "Create" /\ ret.err = "nil" /\ ret.cached

\* C10: a successful Create<Cap>Service(name) never returns the handle of a
\* provider that has been unregistered, i.e. the handle it returns is the
\* provider registered under its name.
C10_UnregisterInvalidatesCache ==
    (ret.step = "Create" /\ ret.err = "nil") =>
        /\ ProvName(ret.p) \in DOMAIN providers
        /\ providers[ProvName(ret.p)] = ret.p

\* ---------------------------------------------------------------------------
\* Claims about the streaming clients
\* ---------------------------------------------------------------------------
\* C1: a Send that starts after Close() has returned does not succeed and
\* writes nothing to the connection.
C1_NoSendAfterClose ==
    (closeReturned /\ ret.step = "Send") => (ret.err # "nil" /\ ~ret.wrote)

\* the caller has sent text and then asked to finish
SentThenClosed ==
    /\ closeReturned
    /\ \E i, j \in DOMAIN wire :
         i < j /\ wire[i] = "task_continue" /\ wire[j] = "task_finish"

\* C2: after Send then Close, when the stream ended with task_finished,
\* a Receive that returns io.EOF has been preceded by the delivery, in arrival
\* order, of every audio chunk that arrived before task_finished.
C2_ChunksBeforeEOF ==
    (SentThenClosed /\ finished /\ ret.step = "Receive" /\ ret.err = "EOF") =>
        delivered = [i \in 1..arrived |-> i]

\* C3: doneCh is never closed twice: no Close() and no cleanup of the reader
\* panics.
C3_CloseNeverPanics == ~panicked

\* C11: every Close() of an STT client returns nil without a panic, whatever
\* was called before it (Finalize and Flush included), and leaves the done
\* channel closed, so that a Receive after it returns io.EOF instead of
\* blocking.
C11_CloseIdempotentThenEOF ==
    (ret.step = "Close") =>
        (ret.err = "nil" /\ ~panicked /\ doneCh = "closed")

\* C12: once the closed flag is set, the reader goroutine has exited and the
\* caller's Close() has returned, the connection's Close has been called:
\* no code is left that could release the transport later.
C12_TransportReleased ==
    (closed /\ rpc = "exited" /\ closeReturned) => connClosed

\* Finalize() has returned nil: it wrote the CloseStream message
Finalized == \E i \in DOMAIN wire : wire[i] = "CloseStream"

\* C13: after a successful Finalize() every Send() fails and writes no audio
\* frame to the transport.
C13_NoSendAfterFinalize ==
    (Finalized /\ ret.step = "Send") => (ret.err # "nil" /\ ~ret.wrote)

\* C14: a Receive that returns io.EOF does so only when no terminal error is
\* waiting in errCh: with both an error queued and the done channel closed,
\* Receive returns the error.
C14_ErrorPreferredOverEOF ==
    (ret.step = "Receive" /\ ret.err = "EOF") => Len(errCh) = 0

\* Text + " " of every final result among the first n results, in order
RECURSIVE FinalText(_)
FinalText(n) ==
    IF n = 0 THEN <<>>
    ELSE FinalText(n - 1) \o (IF n \in finals THEN <<n, " ">> ELSE <<>>)

\* C15: when the server has closed the WebSocket normally and Transcribe
\* returns a text, the text is Text + " " of every final result the client
\* read before the close, in order.
C15_TranscribeKeepsFinals ==
    (tpc \in {"defer", "returned"} /\ tret.err = "nil" /\ finished) =>
        tret.text = FinalText(arrived)

\* the token belongs to a source row whose enabled column is false
DisabledToken(token) ==
    \E r \in RowsByToken(token) : SourceRows[r].enabled = "false"

\* C16: ValidateToken of a token whose source is disabled returns no source
\* and an error, the error being "source is disabled" when the query reached
\* the table, and the cache holds no entry for that token.
C16_DisabledSourceRejected ==
    (ret.step = "ValidateToken" /\ DisabledToken(ret.name)) =>
        /\ ret.p = Nil
        /\ ret.err # "nil"
        /\ (ret.at = "http" /\ ret.err # "failed to query supabase") =>
              ret.err = "source is disabled"
        /\ ret.name \notin DOMAIN byToken

\* C17: when HealthCheck returns, having run with no Register or Unregister in
\* between, every registered provider has a result; one whose probe returned
\* nil is healthy and is in GetAvailableProviders(c) for each capability c it
\* declares; one whose probe failed is unhealthy, is in GetAvailableProviders
\* of no capability, and Get(name, c) fails for it with the unhealthy error.
C17_HealthUpdate ==
    (ret.step = "HealthCheck") =>
        /\ DOMAIN results = DOMAIN providers
        /\ \A n \in DOMAIN results :
              LET p == providers[n]
                  caps == Range(ProvCaps(p))
              IN  IF results[n] = "nil"
                  THEN /\ healthStatus[n] = HealthStatusHealthy
                       /\ \A c \in caps : p \in Range(GetAvailableProviders(c))
                  ELSE /\ healthStatus[n] = HealthStatusUnhealthy
                       /\ \A c \in Capability : p \notin Range(GetAvailableProviders(c))
                       /\ \A c \in caps : Get(n, c) = <<Nil, "currently unhealthy">>

\* a HealthCheck over two providers returned, one probe nil and one failed
C17_Witness ==
    /\ ret.step = "HealthCheck"
    /\ \E n, m \in DOMAIN results : results[n] = "nil" /\ results[m] # "nil"

\* C18: Get(name, capability) changes none of the registry maps; it returns a
\* handle only if the name is registered, the provider declares the capability
\* and its status is not unhealthy, and the handle is then the registered
\* provider; otherwise it returns no handle and the error of the first failed
\* condition: not found, does not support capability, or currently unhealthy.
C18_GetOutcome ==
    [][ret'.step = "Get" =>
        LET n == ret'.name
            c == ret'.cap
            exists == n \in DOMAIN providers
            declares == exists /\ c \in Range(ProvCaps(providers[n]))
            unhealthy == n \in DOMAIN healthStatus
                           /\ healthStatus[n] = HealthStatusUnhealthy
        IN  /\ UNCHANGED <<regVars, infoVars>>
            /\ ret'.p # Nil => (exists /\ declares /\ ~unhealthy
                                 /\ ret'.p = providers[n] /\ ret'.err = "nil")
            /\ ret'.p = Nil =>
                  /\ ret'.err \in {"not found", "does not support capability",
                                    "currently unhealthy"}
                  /\ ret'.err = "not found" <=> ~exists
                  /\ ret'.err = "does not support capability" <=> (exists /\ ~declares)
                  /\ ret'.err = "currently unhealthy" <=>
                        (exists /\ declares /\ unhealthy)
       ]_vars

\* Get has just refused an unhealthy provider that declares the capability
C18_Witness ==
    /\ ret.step = "Get"
    /\ ret.err = "currently unhealthy"
    /\ ret.name \in DOMAIN providers
    /\ hasCapability(providers[ret.name], ret.cap)

\* C19: a Register of nil, of a provider with an empty name, with no
\* capability, with a capability outside {chat, embedding, stt, tts} or with a
\* registered name fails and leaves the five registry maps unchanged; in every
\* state each registered provider has a non-empty name and declares at least
\* one capability, all of them in {chat, embedding, stt, tts}.
C19_RegisterValidation ==
    /\ [](\A n \in DOMAIN providers :
             /\ n # ""
             /\ ProvName(providers[n]) = n
             /\ Len(ProvCaps(providers[n])) >= 1
             /\ \A i \in DOMAIN ProvCaps(providers[n]) :
                   ProvCaps(providers[n])[i] \in Capability)
    /\ [][(/\ ret'.step = "Register"
           /\ \/ ret'.p = Nil
              \/ ProvName(ret'.p) = ""
              \/ Len(ProvCaps(ret'.p)) = 0
              \/ \E i \in DOMAIN ProvCaps(ret'.p) : ProvCaps(ret'.p)[i] \notin Capability
              \/ ProvName(ret'.p) \in DOMAIN providers) =>
             /\ ret'.err # "nil"
             /\ UNCHANGED RegistryMaps]_vars

\* a provider declaring a capability outside the four was refused while
\* another provider was registered
C19_Witness ==
    /\ ret.step = "Register" /\ ret.err = "invalid capabilities"
    /\ ret.p # Nil
    /\ \E i \in DOMAIN ProvCaps(ret.p) : ProvCaps(ret.p)[i] \notin Capability
    /\ ret.name \notin DOMAIN providers
    /\ providers # EmptyMap

\* the provider plugin n constructed is the one registered under its name
DiscoverRegistered(n) ==
    /\ dprov[n] # Nil
    /\ ProvName(dprov[n]) \in DOMAIN providers
    /\ providers[ProvName(dprov[n])] = dprov[n]

\* C20: during DiscoverAndRegister a plugin without an entry in configs is
\* never initialised and no provider is closed more than once; when the call
\* has returned, every configured plugin of the snapshot was initialised once,
\* whatever failed before it; a constructed provider is either registered and
\* never closed, or not registered, closed exactly once and its error
\* collected; a failed constructor is collected; and the call returned an error
\* exactly when some configured plugin ended without a registered provider, the
\* error count being the number of such plugins.
C20_DiscoverAndRegister ==
    /\ \A n \in PluginNames \ dconfigs : dinit[n] = 0 /\ dprov[n] = Nil
    /\ \A n \in PluginNames : dclose[n] <= 1
    /\ dpc = "returned" =>
          LET configured == dcopy \cap dconfigs
              failed == {n \in configured : ~DiscoverRegistered(n)}
          IN  /\ \A n \in PluginNames : dinit[n] = IF n \in configured THEN 1 ELSE 0
              /\ \A n \in configured :
                    IF dprov[n] = Nil
                    THEN /\ Count(derrors, <<"failed to initialize plugin", n>>) = 1
                         /\ dclose[n] = 0
                    ELSE IF DiscoverRegistered(n)
                    THEN /\ dclose[n] = 0
                         /\ Count(derrors, <<"failed to register provider", n>>) = 0
                    ELSE /\ dclose[n] = 1
                         /\ Count(derrors, <<"failed to register provider", n>>) = 1
              /\ dret.err # "nil" <=> failed # {}
              /\ dret.count = Cardinality(failed)

\* a call returned after one constructor failed, one provider was refused by
\* the registry and closed, and one provider was registered
C20_Witness ==
    /\ dpc = "returned"
    /\ \E a, b, c \in dcopy \cap dconfigs :
          /\ dprov[a] = Nil
          /\ dprov[b] # Nil /\ ~DiscoverRegistered(b) /\ dclose[b] = 1
          /\ DiscoverRegistered(c)

\* C21: in the state in which ReloadProvider returns nil the registry maps the
\* name to the provider the call constructed, with health status unknown, and
\* that provider was not closed; whenever the call has returned and the
\* provider it constructed was refused by Register, the call returned an error
\* and closed that provider exactly once.
C21_ReloadProvider ==
    /\ (ret.step = "Register" /\ ret.p = lfresh /\ lpc = "returned" /\ lret = "nil") =>
          /\ lname \in DOMAIN providers
          /\ providers[lname] = lfresh
          /\ lfresh \notin ReloadPrior
          /\ healthStatus[lname] = HealthStatusUnknown
          /\ lclose = 0
    /\ (ret.step = "Register" /\ ret.p = lfresh /\ lpc = "returned" /\ lret # "nil") =>
          /\ ~(lname \in DOMAIN providers /\ providers[lname] = lfresh)
          /\ lclose = 1
    /\ (lpc = "returned" /\ lfresh # Nil) => (lclose = 1 <=> lret # "nil")
    /\ lclose <= 1

\* the old provider's Close failed, so it stayed registered, the new provider
\* was refused as a duplicate and closed
C21_Witness ==
    /\ ret.step = "Register" /\ ret.err = "already registered" /\ ret.p = lfresh
    /\ lpc = "returned" /\ lret = "failed to register provider"
    /\ lname \in DOMAIN providers /\ providers[lname] \in ReloadPrior
    /\ lclose = 1

\* C22: a request through the fallback wrapper enters the factory once for the
\* requested name and at most once more: the second entry is prepared only by
\* a failed primary attempt, when GetFallbackProvider(capability) is neither
\* empty nor the requested name, and it is for that name; an attempt for the
\* fallback is never followed by a further attempt.  A primary attempt that
\* succeeds returns at once, and a failed primary attempt returns its own
\* error when no fallback applies.
C22_SingleRetry ==
    /\ [][\A t \in FacCallers :
            /\ (fpc'[t] = "check" /\ fpc[t] # "check") =>
                  /\ fcall[t].stage = "primary"
                  /\ fcall'[t].stage = "fallback"
                  /\ ret'.step = "Create:retry" /\ ret'.err # "nil"
                  /\ fcall'[t].name = GetFallbackProvider(fcall[t].cap)
                  /\ fcall'[t].name \notin {"", fcall[t].requested}
                  /\ fcall'[t].requested = fcall[t].requested
            /\ (fpc[t] # "idle" /\ fcall[t].stage = "fallback") =>
                  (fpc'[t] = "idle" \/ fcall'[t] = fcall[t]
                     \/ (fcall'[t].stage = "fallback" /\ fpc[t] # "set"
                         /\ fpc'[t] \in {"get", "set"}))
         ]_vars
    /\ []((ret.step = "WrapperCreate" /\ ret.stage = "primary" /\ ret.err # "nil") =>
             /\ GetFallbackProvider(ret.cap) \in {"", ret.name}
             /\ ret.errName = ret.name)
    /\ []((ret.step = "WrapperCreate" /\ ret.err = "nil" /\ ret.stage = "fallback") =>
             ProvName(ret.p) # ret.name)

\* a request whose primary attempt failed was served by the fallback provider
C22_Witness ==
    /\ ret.step = "WrapperCreate" /\ ret.stage = "fallback" /\ ret.err = "nil"
    /\ ret.name = "a" /\ ProvName(ret.p) = "b"

\* C23: ClearCacheForProvider(name) removes the keys chat:name,
\* embedding:name, stt:name and tts:name, and every other entry of the cache
\* is kept with its value; ClearCache() leaves the cache empty; both leave the
\* registry as it was.
C23_ClearCacheFrame ==
    [][/\ ret'.step = "ClearCacheForProvider" =>
             /\ \A c \in {"chat", "embedding", "stt", "tts"} :
                   <<c, ret'.name>> \notin DOMAIN cache'
             /\ \A k \in DOMAIN cache :
                   k[2] # ret'.name => (k \in DOMAIN cache' /\ cache'[k] = cache[k])
             /\ DOMAIN cache' \subseteq DOMAIN cache
             /\ UNCHANGED <<regVars, infoVars>>
       /\ ret'.step = "ClearCache" =>
             /\ DOMAIN cache' = {}
             /\ UNCHANGED <<regVars, infoVars>>
      ]_vars

\* ClearCacheForProvider("a") has run and the entries of provider b are still
\* cached
C23_Witness ==
    /\ ret.step = "ClearCacheForProvider" /\ ret.name = "a"
    /\ \E k \in DOMAIN cache : k[2] = "b"

\* s with every occurrence of x taken out
Without(s, x) == SelectSeq(s, LAMBDA y : y # x)

\* s is the beginning of t
IsPrefix(s, t) == Len(s) <= Len(t) /\ SubSeq(t, 1, Len(s)) = s

\* C24: List(c) holds exactly the registered providers that declare c, and is
\* empty when there is none.  A successful Register(p) puts p at the end of
\* List(c) for every c it declares, behind all providers already there, and
\* changes no other list; a successful Unregister takes the provider out of
\* every list and leaves the others in the order they had; a failed Register
\* or Unregister changes no list.
C24_ListOrder ==
    /\ [](\A c \in Capability :
             Range(List(c)) =
                {providers[n] : n \in {m \in DOMAIN providers :
                                         hasCapability(providers[m], c)}})
    /\ [][\A c \in Capability :
            /\ (ret'.step = "Register" /\ ret'.err = "nil") =>
                  IF hasCapability(ret'.p, c)
                  THEN /\ IsPrefix(List(c), List(c)')
                       /\ Len(List(c)') > Len(List(c))
                       /\ Without(List(c)', ret'.p) = List(c)
                  ELSE List(c)' = List(c)
            /\ (ret'.step = "Unregister" /\ ret'.err = "nil") =>
                  List(c)' = Without(List(c), ret'.p)
            /\ (ret'.step \in {"Register", "Unregister"} /\ ret'.err # "nil") =>
                  List(c)' = List(c)
         ]_vars

\* three providers are listed for stt, the one registered first having been
\* unregistered and registered again
C24_Witness ==
    /\ Len(List("stt")) >= 3
    /\ ret.step = "Register" /\ ret.err = "nil"
    /\ regOk["a"] = 1 /\ regOk["b"] = 1
    /\ List("stt")[Len(List("stt"))] = ret.p
    /\ \E i, j \in DOMAIN List("stt") :
          i < j /\ ProvName(List("stt")[i]) = "c" /\ ProvName(List("stt")[j]) = "a"

\* C25: the results successive Receive calls of the one caller have returned
\* are frames the reader read, in the order it read them and each at most
\* once (frames are numbered in reading order); a Receive that returns a
\* result returns one read after every result returned before.
C25_ResultOrder ==
    /\ \A i \in DOMAIN delivered : delivered[i] \in 1..arrived
    /\ \A i, j \in DOMAIN delivered : i < j => delivered[i] < delivered[j]
    /\ (ret.step = "Receive" /\ ret.err = "nil") =>
          /\ delivered # <<>>
          /\ ret.chunk = delivered[Len(delivered)]

\* two results were returned, the first of them final
C25_Witness ==
    /\ ret.step = "Receive" /\ ret.err = "nil"
    /\ Len(delivered) = 2
    /\ delivered[1] \in finals

C27_ProducerCloses ==
    (sctx /\ readerStopped /\ ~chansClosed) =>
        ~(spc = "send" /\ Len(contentChan) = ContentChanCap)

HoldsMu(g) == muWriter = g \/ g \in muReaders

\* C29: no goroutine holds r.mu, for reading or for writing, while it is
\* inside provider.Close, provider.Capabilities or provider.HealthCheck; a
\* probe goroutine of HealthCheck holds no lock while it probes.
C29_LockDiscipline ==
    \A g \in Goroutines : inMethod[g] # "none" => ~HoldsMu(g)

\* a caller inside the resolve-and-cache section of Create<Cap>Service:
\* past the cache lookup, before the return
Constructing(t, name) ==
    fpc[t] \in {"get", "set"} /\ fcall[t].name = name

\* C30: for every provider name at most one Create<Cap>Service call is inside
\* the resolve-and-cache section (registry lookup, interface check, cache
\* store) at a time.
C30_SingleConstruction ==
    \A n \in Names : \A t1, t2 \in Callers :
        (Constructing(t1, n) /\ Constructing(t2, n)) => t1 = t2

\* goroutine g is inside a write on the transport: the options write of
\* initStream, c.stream.Send of Send, c.stream.CloseSend of Close
YandexWriting(g) ==
    ypc[g] \in {"Send.init", "Send.initEmpty", "Send.write", "Close.CloseSend"}

\* C31: no two writes issued by the same client are in progress on the
\* transport at the same time, whether from two Send calls or from Send and
\* the CloseSend of Close.
C31_SendSerialised ==
    \A g1, g2 \in Goroutines :
        (YandexWriting(g1) /\ YandexWriting(g2)) => g1 = g2

C33_ConsumerGuard ==
    /\ ystarted <= 1
    /\ yaudioClosed => ycons \in {"none", "exited"}
    /\ ypanic = ""
    /\ ydoneClosed => (yaudioClosed /\ yclosed)

\* Close returned after the receiver goroutine, started by a Send, had exited
C33_Witness ==
    /\ ret.step = "Close" /\ yaudioClosed /\ ydoneClosed
    /\ ystarted = 1 /\ ycons = "exited"

\* C34: once the reader goroutine has queued an error and exited, the done
\* channel is closed: a reader that has exited with its error still in the
\* error channel has left a closed done channel behind.
C34_ErrorThenDone ==
    (rpc = "exited" /\ errCh # <<>>) => doneCh = "closed"

\* the receiver is blocked in the send on a full audio channel
YandexStuck == ycons = "send" /\ yaudio = YandexAudioChCap

\* C35: with nobody calling Receive, a receiver goroutine blocked in the send
\* on the full audio channel terminates, and a Close that waits for it returns.
C35_StuckConsumerEnds ==
    /\ YandexStuck ~> (ycons = "exited")
    /\ \A g \in Goroutines :
          (YandexStuck /\ ypc[g] \in {"Close.CloseSend", "Close.wait"})
              ~> (ypc[g] = "idle" /\ ydoneClosed)

\* the timeout fired while a Close was waiting for the receiver
C35_Witness ==
    /\ ret.step = "receiveAudio.timeout" /\ ycons = "exited"
    /\ yaudio = YandexAudioChCap
    /\ \E g \in Goroutines : ypc[g] = "Close.wait"

\* C36: the result of probing a provider instance is not applied to another
\* instance: a probe step whose instance is no longer the one registered under
\* its name leaves that name's health status and provider info as they were.
C36_ProbeOfProbedInstance ==
    [][(/\ ret'.step \in {"HealthCheckProbe", "HealthCheck"}
        /\ ret'.name \in DOMAIN providers
        /\ providers[ret'.name] # ret'.p)
       => (/\ healthStatus'[ret'.name] = healthStatus[ret'.name]
           /\ providerInfo'[ret'.name] = providerInfo[ret'.name])]_vars

\* C37: the health-status map and the last-checked map have an entry for a
\* name exactly when that name is a registered provider.
C37_MapsKeyConsistent ==
    /\ DOMAIN healthStatus = DOMAIN providers
    /\ DOMAIN lastHealthCheck = DOMAIN providers

\* C38: a Create<Cap>Service call that returns a handle from its cache lookup
\* does so only when registry.Get for the same name and capability would not
\* fail with the unhealthy error.
C38_NoUnhealthyHandle ==
    (ret.step = "Create" /\ ret.err = "nil" /\ ret.at = "check")
        => Get(ret.name, ret.cap)[2] # "currently unhealthy"

\* C39: when Unregister(name) and then ClearCacheForProvider(name) have
\* completed during a Create<Cap>Service(name) call that already holds the old
\* provider, the call's return leaves no cache entry of that name referring to
\* the unregistered provider.
C39_InvalidationNotUndone ==
    [][(/\ ret.step = "ClearCacheForProvider"
        /\ ret.name \notin DOMAIN providers
        /\ ret'.step = "Create" /\ ret'.at = "set" /\ ret'.name = ret.name)
       => \A k \in DOMAIN cache' : k[2] = ret.name => cache'[k] # ret'.p]_vars

\* C40: Yandex STT Transcribe returns a text only after the server has ended
\* the stream, and the text is Text + " " of every final result the server
\* sent, in order.
C40_TranscribeWaitsForServer ==
    (tpc \in {"defer", "returned"} /\ tret.err = "nil") =>
        /\ finished
        /\ tret.text = FinalText(arrived)

====
